---- MODULE Spec2Model ----
(***************************************************************************)
(* Model of the LN <-> Liquid swap service: the RPC handlers of            *)
(* src/src/swap/service.rs, the SQLite store of src/src/swap/store.rs and  *)
(* the refund watcher of src/src/bin/swap_server.rs.                       *)
(*                                                                         *)
(* Handlers run concurrently on a pool of tasks.  A handler is cut into    *)
(* steps at the points where it gives up every lock: a step is one         *)
(* critical section (store mutex, or wallet mutex with the store mutex     *)
(* nested in it) or one call to the LN node.  The watcher holds the wallet *)
(* mutex for a whole cycle, so it is the only holder seen across steps.    *)
(*                                                                         *)
(* A request that a handler rejects before it has written, broadcast or    *)
(* paid anything changes no state: its answer is the value of the          *)
(* handler's ..._check operator, which follows the handler's early returns *)
(* in their order.  Answers that follow an effect, and the idempotent      *)
(* answers, are steps and are kept in reply.                               *)
(***************************************************************************)
EXTENDS Integers, Sequences, FiniteSets, TLC

(* ------------------------------ bounds -------------------------------- *)
MaxSwaps == 1
MaxQuoteSwaps == 2
MaxTip == 1
MaxPayments == 2
MaxInvoices == 2
NumTasks == 2
\* cfg.refund_delta_blocks of the modelled process (144 by default), scaled
\* to the heights the chain reaches here
RefundDeltaBlocks == 1
\* u64::MAX, scaled to the products the quotes of the runs reach
MaxU64 == 15
\* u32 (block heights) is kept at this many bits, and a script number, an i64
\* of at most 8 bytes in htlc.rs 104, at twice as many
U32Bits == 16
ScriptNumBytes == 4
MaxU32 == 2 ^ U32Bits - 1

(* ------------------------- program constants -------------------------- *)
MAX_MIN_FUNDING_CONFS == 6
DEFAULT_CLAIM_FEE_SATS == 500
\* cfg.fee_subsidy_sats, at its default
FeeSubsidySats == 10000
\* cfg.invoice_expiry_secs, at its default
InvoiceExpirySecs == 3600
\* the refund_fee_sats the watcher is started with, at its default
RefundFeeSats == 500

Tasks == 1..NumTasks
QuoteIds == {"quote_1"}
\* the quote_id of a request: a quote's id, the empty string, or an id the
\* store has never given out
QuoteIdInputs == QuoteIds \cup {"", "quote_unknown"}
Preimages == {"preimage_x", "preimage_y"}
Directions == {"ln_to_liquid", "liquid_to_ln"}
\* the direction of a request: pb::SwapDirection, or an i32 that is none
DirectionInputs == Directions \cup {"unspecified", "not_a_direction"}
\* service.rs 31-34: CallerRole of an authenticated request
Callers == {"seller", "buyer"}
\* P2WPKH addresses of the wallet's network
BuyerAddresses == {"wallet_buyer", "foreign"}
\* the buyer_liquid_address of a request
AddressInputs ==
    BuyerAddresses \cup {"", "malformed", "not_p2wpkh", "other_network"}
\* the asset_id of a request
AssetIdInputs == {"asset_a", "asset_b", "malformed"}
\* the asset_amount of a request; the last one overflows at the higher price
AmountInputs == {0, 1, 2, MaxU64 \div 2 + 1}
MinConfsChoices == {0, 1, MAX_MIN_FUNDING_CONFS + 1}
ClaimFeeChoices == {0, FeeSubsidySats}

\* mod.rs 8-15: SwapStatus
Statuses == {"created", "funded", "paid", "claimed", "refunded", "failed"}

None == << >>
Some(x) == << x >>

\* htlc.rs 489-491; SHA-256 is collision free on the modelled preimages
sha256_preimage(p) == << "sha256", p >>
\* the invoices of the runs are made for one preimage; the LN node may still
\* hand back any of Preimages
Hashes == { sha256_preimage("preimage_x") }

\* a BOLT11 invoice as the parser of invoice.rs sees it: its payment hash,
\* its amount if it names one, and whether it has expired by now
Bolt11(payment_hash, amount_msat, expired) ==
    << "lnbc", payment_hash, amount_msat, expired >>
Unparsable == << "not_an_invoice" >>
\* the buyer_bolt11_invoice of a request: empty, text that is no invoice, or
\* an invoice
InvoiceHashes == { sha256_preimage(p) : p \in Preimages }
InvoiceInputs ==
    {None, Unparsable}
    \cup { Bolt11(h, a, e) : h \in InvoiceHashes, a \in {None, Some(1), Some(2)},
                             e \in BOOLEAN }

\* swap_server.rs 141-149: the SwapServiceConfig main builds from its arguments
BaseConfig ==
    [sell_asset_id |-> "asset_a",
     price_msat_per_asset_unit |-> 1,
     fee_subsidy_sats |-> FeeSubsidySats,
     refund_delta_blocks |-> RefundDeltaBlocks,
     invoice_expiry_secs |-> InvoiceExpirySecs,
     seller_token |-> "seller_token",
     buyer_token |-> "buyer_token"]
\* the configs the process is started with: BaseConfig and one that changes
\* the offer
Configs ==
    {BaseConfig, [BaseConfig EXCEPT !.invoice_expiry_secs = InvoiceExpirySecs + 1]}
\* BaseConfig and, for each field of the config that goes into the offer, a
\* config that differs from it in that field alone
OfferConfigs ==
    Configs \cup
    {[BaseConfig EXCEPT !.sell_asset_id = "asset_b"],
     [BaseConfig EXCEPT !.price_msat_per_asset_unit = 2],
     [BaseConfig EXCEPT !.fee_subsidy_sats = FeeSubsidySats + 1],
     [BaseConfig EXCEPT !.refund_delta_blocks = MaxU32]}

\* service.rs 95-109
current_offer(c) ==
    [asset_id |-> c.sell_asset_id,
     supported_directions |-> Directions,
     price_msat_per_asset_unit |-> c.price_msat_per_asset_unit,
     fee_subsidy_sats |-> c.fee_subsidy_sats,
     refund_delta_blocks |-> c.refund_delta_blocks,
     invoice_expiry_secs |-> c.invoice_expiry_secs,
     max_min_funding_confs |-> MAX_MIN_FUNDING_CONFS]

\* the authorization metadata of a request: none, or the text before the
\* first space and the text after it
Headers ==
    {None, << "Bearer", "seller_token" >>, << "Bearer", "buyer_token" >>,
     << "Bearer", "other_token" >>, << "Basic", "seller_token" >>}

VARIABLES
    cfg,          \* the SwapServiceConfig of the running process
    quotes,       \* store: table quotes, quote_id -> row
    swaps,        \* store: table swaps, swap_id -> row
    chain,        \* Liquid chain: swap_id -> the HTLC funded for that swap
    tip,          \* Liquid chain tip height
    lnPayments,   \* LN node: payment_id (index) -> swap whose invoice was paid
    lnInvoices,   \* LN node: number of invoices created by the service
    walletLock,   \* holder of the wallet mutex across steps
    task,         \* handler tasks
    watcher,      \* refund worker
    reply         \* the response sent by the last step, if it sent one

vars == << cfg, quotes, swaps, chain, tip, lnPayments, lnInvoices,
           walletLock, task, watcher, reply >>

(* ------------------------------ helpers ------------------------------- *)
\* u32::wrapping_add in the place of saturating_add
refund_lock_height_wrapping(tip_height, refund_delta_blocks) ==
    (tip_height + refund_delta_blocks) % (MaxU32 + 1)

\* service.rs 542-543: tip_height().saturating_add(refund_delta_blocks)
refund_lock_height_at(tip_height, refund_delta_blocks) ==
    IF tip_height + refund_delta_blocks > MaxU32 THEN MaxU32
    ELSE tip_height + refund_delta_blocks

\* u64::wrapping_mul in the place of checked_mul
wrapping_mul(a, b) == Some((a * b) % (MaxU64 + 1))

\* u64::checked_mul
checked_mul(a, b) == IF a * b > MaxU64 THEN None ELSE Some(a * b)

\* invoice.rs 7-30: Bolt11Invoice::from_str and the field read; None is the
\* Err of a string that does not parse
payment_hash_from_bolt11(invoice) ==
    IF Len(invoice) = 4 THEN Some(invoice[2]) ELSE None
amount_msat_from_bolt11(invoice) ==
    IF Len(invoice) = 4 THEN Some(invoice[3]) ELSE None
is_expired_bolt11(invoice) ==
    IF Len(invoice) = 4 THEN Some(invoice[4]) ELSE None

\* an instruction of a script: an opcode, OP_PUSHNUM_1..16 with its number,
\* or a push with the number of bytes pushed and the bytes.  The 32 bytes of
\* a SHA-256 and the 20 bytes of a HASH160 are kept as one value.
Op(name) == << name >>
PushNum(n) == << "OP_PUSHNUM", n >>
PushBytes(len, bytes) == << "OP_PUSHBYTES", len, bytes >>
\* a push through OP_PUSHDATA1, which instructions_minimal takes only for
\* 76 bytes and more
PushData1(len, bytes) == << "OP_PUSHDATA1", len, bytes >>

RECURSIVE le_bytes(_)
\* the little-endian bytes of a magnitude, without leading zero bytes
le_bytes(abs) ==
    IF abs = 0 THEN << >> ELSE << abs % 256 >> \o le_bytes(abs \div 256)

\* build_scriptint without the byte that keeps the sign bit clear
build_scriptint_unsigned(n) == le_bytes(IF n < 0 THEN 0 - n ELSE n)

\* script::build_scriptint (behind push_int, htlc.rs 42): sign-magnitude,
\* little-endian, the sign in the top bit of the last byte
build_scriptint(n) ==
    IF n = 0 THEN << >>
    ELSE LET abs == IF n < 0 THEN 0 - n ELSE n
             v == le_bytes(abs)
             sign == IF n < 0 THEN 128 ELSE 0
         IN IF v[Len(v)] >= 128
            THEN v \o << sign >>
            ELSE [v EXCEPT ![Len(v)] = v[Len(v)] + sign]

\* script::Builder::push_int (htlc.rs 30, 42): OP_1NEGATE, OP_1..OP_16 and
\* OP_0 where they apply, a push of build_scriptint otherwise
push_int(n) ==
    IF n = 0 - 1 THEN Op("OP_PUSHNUM_NEG1")
    ELSE IF n \in 1..16 THEN PushNum(n)
    ELSE IF n = 0 THEN PushBytes(0, << >>)
    ELSE PushBytes(Len(build_scriptint(n)), build_scriptint(n))

\* script::Builder::push_slice (htlc.rs 33, 37, 46) of a 20- or 32-byte array
push_slice(len, bytes) == PushBytes(len, bytes)

\* Script::instructions_minimal (htlc.rs 135) fails on a push that a shorter
\* opcode would do: one byte that OP_1..OP_16 or OP_1NEGATE pushes, or
\* OP_PUSHDATA1 for fewer than 76 bytes
NonMinimalPush(instruction) ==
    \/ /\ instruction[1] = "OP_PUSHBYTES"
       /\ instruction[2] = 1
       /\ instruction[3][1] \in (1..16) \cup {129}
    \/ /\ instruction[1] = "OP_PUSHDATA1"
       /\ instruction[2] < 76

RECURSIVE le_value(_)
\* htlc.rs 114-117: value |= b << (8 * i)
le_value(magnitude) ==
    IF magnitude = << >> THEN 0
    ELSE magnitude[1] + 256 * le_value(Tail(magnitude))

\* htlc.rs 100-120; None is the Err of a number of more bytes than the
\* integer has
decode_script_num(bytes) ==
    IF bytes = << >> THEN Some(0)
    ELSE IF Len(bytes) > ScriptNumBytes THEN None
    ELSE LET last == bytes[Len(bytes)]
             negative == last >= 128
             magnitude == [bytes EXCEPT ![Len(bytes)] = last % 128]
             value == le_value(magnitude)
         IN Some(IF negative THEN 0 - value ELSE value)

\* htlc.rs 80-98; None is the Err of an opcode that pushes no number
parse_script_num(instruction) ==
    IF instruction[1] \in {"OP_PUSHBYTES", "OP_PUSHDATA1"}
    THEN IF instruction[2] > ScriptNumBytes THEN None
         ELSE decode_script_num(instruction[3])
    ELSE IF instruction[1] = "OP_PUSHNUM_NEG1" THEN Some(0 - 1)
    ELSE IF instruction[1] = "OP_PUSHNUM" THEN Some(instruction[2])
    ELSE None

\* htlc.rs 71-78
expect_op(instruction, expected) == instruction = Op(expected)

\* htlc.rs 122-133
expect_push(instruction, n) ==
    /\ instruction[1] \in {"OP_PUSHBYTES", "OP_PUSHDATA1"}
    /\ instruction[2] = n

\* witness_script with the payment hash and the claimer's key hash in each
\* other's place
witness_script_swapped(spec) ==
    << Op("OP_IF"), Op("OP_SIZE"), push_int(32), Op("OP_EQUALVERIFY"),
       Op("OP_SHA256"), push_slice(32, spec.claimer), Op("OP_EQUALVERIFY"),
       Op("OP_DUP"), Op("OP_HASH160"), push_slice(20, spec.payment_hash),
       Op("OP_EQUALVERIFY"), Op("OP_CHECKSIG"),
       Op("OP_ELSE"), push_int(spec.refund_lock_height), Op("OP_CLTV"),
       Op("OP_DROP"),
       Op("OP_DUP"), Op("OP_HASH160"), push_slice(20, spec.refunder),
       Op("OP_EQUALVERIFY"), Op("OP_CHECKSIG"),
       Op("OP_ENDIF") >>

\* htlc.rs 26-51
witness_script(spec) ==
    << Op("OP_IF"), Op("OP_SIZE"), push_int(32), Op("OP_EQUALVERIFY"),
       Op("OP_SHA256"), push_slice(32, spec.payment_hash), Op("OP_EQUALVERIFY"),
       Op("OP_DUP"), Op("OP_HASH160"), push_slice(20, spec.claimer),
       Op("OP_EQUALVERIFY"), Op("OP_CHECKSIG"),
       Op("OP_ELSE"), push_int(spec.refund_lock_height), Op("OP_CLTV"),
       Op("OP_DROP"),
       Op("OP_DUP"), Op("OP_HASH160"), push_slice(20, spec.refunder),
       Op("OP_EQUALVERIFY"), Op("OP_CHECKSIG"),
       Op("OP_ENDIF") >>

\* htlc.rs 135-173: the instructions the parser reads are the expected ones,
\* in their order, and nothing follows them
well_formed(script) ==
    /\ Len(script) = 22
    /\ \A i \in 1..22 : ~NonMinimalPush(script[i])
    /\ expect_op(script[1], "OP_IF")
    /\ expect_op(script[2], "OP_SIZE")
    /\ parse_script_num(script[3]) = Some(32)
    /\ expect_op(script[4], "OP_EQUALVERIFY")
    /\ expect_op(script[5], "OP_SHA256")
    /\ expect_push(script[6], 32)
    /\ expect_op(script[7], "OP_EQUALVERIFY")
    /\ expect_op(script[8], "OP_DUP")
    /\ expect_op(script[9], "OP_HASH160")
    /\ expect_push(script[10], 20)
    /\ expect_op(script[11], "OP_EQUALVERIFY")
    /\ expect_op(script[12], "OP_CHECKSIG")
    /\ expect_op(script[13], "OP_ELSE")
    /\ parse_script_num(script[14]) # None
    /\ parse_script_num(script[14])[1] >= 0
    /\ parse_script_num(script[14])[1] <= MaxU32
    /\ expect_op(script[15], "OP_CLTV")
    /\ expect_op(script[16], "OP_DROP")
    /\ expect_op(script[17], "OP_DUP")
    /\ expect_op(script[18], "OP_HASH160")
    /\ expect_push(script[19], 20)
    /\ expect_op(script[20], "OP_EQUALVERIFY")
    /\ expect_op(script[21], "OP_CHECKSIG")
    /\ expect_op(script[22], "OP_ENDIF")

\* htlc.rs 57-181: None is the Err of a script that is not the HTLC's
parse_witness_script(script) ==
    IF ~well_formed(script) THEN None
    ELSE Some([payment_hash |-> script[6][3],
               claimer |-> script[10][3],
               refunder |-> script[19][3],
               refund_lock_height |-> parse_script_num(script[14])[1]])

\* htlc.rs 53-55: Address::p2wsh of the script under the wallet's network
p2wsh_address(script) == << "p2wsh", "regtest", script >>

(* --------------------------- transactions ----------------------------- *)
\* the key of a wallet address (keys.rs derive_secret_key), its public key,
\* and the address of a key: one name for the three
secret_key_of(address) == << "secret_key", address >>
public_key(secret_key) == << "public_key", secret_key[2] >>

\* u64 subtraction as the release build does it: modulo 2^64
wrapping_sub(a, b) == IF a >= b THEN a - b ELSE a - b + MaxU64 + 1

\* the error of anyhow::ensure!(fee_sats < funding.fee_subsidy_sats)
fee_check_dropped(fee_sats, fee_subsidy_sats) == TRUE

\* htlc.rs 254-257, 364-367
fee_check(fee_sats, fee_subsidy_sats) == fee_sats < fee_subsidy_sats

\* inputs with the L-BTC output before the asset output
inputs_lbtc_first(funding, sequence) ==
    << [txid |-> funding.funding_txid, vout |-> funding.lbtc_vout,
        sequence |-> sequence, script_witness |-> << >>],
       [txid |-> funding.funding_txid, vout |-> funding.asset_vout,
        sequence |-> sequence, script_witness |-> << >>] >>

\* htlc.rs 259-284, 369-394: the two HTLC outputs of the funding
\* transaction, the asset first
inputs(funding, sequence) ==
    << [txid |-> funding.funding_txid, vout |-> funding.asset_vout,
        sequence |-> sequence, script_witness |-> << >>],
       [txid |-> funding.funding_txid, vout |-> funding.lbtc_vout,
        sequence |-> sequence, script_witness |-> << >>] >>

\* htlc.rs 286-302, 396-412: the asset and the rest of the subsidy to the
\* recipient, and the fee output, whose script is empty
outputs(funding, recipient, fee_sats) ==
    << [asset |-> funding.asset_id, value |-> funding.asset_amount,
        script_pubkey |-> << "script_pubkey", recipient >>],
       [asset |-> funding.policy_asset,
        value |-> wrapping_sub(funding.fee_subsidy_sats, fee_sats),
        script_pubkey |-> << "script_pubkey", recipient >>],
       [asset |-> funding.policy_asset, value |-> fee_sats,
        script_pubkey |-> << >>] >>

\* htlc.rs 465-487: a signature of the key over the transaction, the input,
\* the script code and the value spent
segwit_v0_sign(tx, input_index, script_code, value, secret_key) ==
    << "sig", secret_key, tx, input_index, script_code, value >>

\* htlc.rs 246-354; None is the Err
claim_tx_from_witness_script(script, funding, buyer_receive, buyer_secret_key, preimage, fee_sats) ==
    IF ~fee_check(fee_sats, funding.fee_subsidy_sats) THEN None
    ELSE LET tx == [version |-> 2, lock_time |-> 0,
                    input |-> inputs(funding, "Sequence::MAX"),
                    output |-> outputs(funding, buyer_receive, fee_sats)]
             asset_sig == segwit_v0_sign(tx, 0, script, funding.asset_amount,
                                         buyer_secret_key)
             lbtc_sig == segwit_v0_sign(tx, 1, script, funding.fee_subsidy_sats,
                                        buyer_secret_key)
             buyer_pubkey == public_key(buyer_secret_key)
         IN Some([tx EXCEPT
                    !.input[1].script_witness =
                        << asset_sig, buyer_pubkey, preimage, << 1 >>, script >>,
                    !.input[2].script_witness =
                        << lbtc_sig, buyer_pubkey, preimage, << 1 >>, script >>])

\* LockTime::from_height (htlc.rs 416) takes the heights below this one
LOCK_TIME_THRESHOLD == 500000000

\* htlc.rs 356-463; None is the Err
refund_tx_from_witness_script(script, refund_lock_height, funding, seller_receive, seller_secret_key, fee_sats) ==
    IF ~fee_check(fee_sats, funding.fee_subsidy_sats) THEN None
    ELSE IF ~(refund_lock_height < LOCK_TIME_THRESHOLD) THEN None
    ELSE LET tx == [version |-> 2, lock_time |-> refund_lock_height,
                    input |-> inputs(funding, "Sequence::ENABLE_LOCKTIME_NO_RBF"),
                    output |-> outputs(funding, seller_receive, fee_sats)]
             asset_sig == segwit_v0_sign(tx, 0, script, funding.asset_amount,
                                         seller_secret_key)
             lbtc_sig == segwit_v0_sign(tx, 1, script, funding.fee_subsidy_sats,
                                        seller_secret_key)
             seller_pubkey == public_key(seller_secret_key)
         IN Some([tx EXCEPT
                    !.input[1].script_witness =
                        << asset_sig, seller_pubkey, << >>, script >>,
                    !.input[2].script_witness =
                        << lbtc_sig, seller_pubkey, << >>, script >>])

\* service.rs 153-156: the token of an "authorization: Bearer <token>"
authorization_bearer_token(header) ==
    IF header = None THEN None
    ELSE IF header[1] = "Bearer" THEN Some(header[2])
    ELSE None

\* require_authenticated without its last comparison: a token that is not
\* the seller's passes as the buyer's
require_authenticated_any_bearer(c, header) ==
    LET token == authorization_bearer_token(header)
    IN  IF token = None THEN "missing_bearer_token"
        ELSE IF token[1] = c.seller_token THEN "seller"
        ELSE "buyer"

\* service.rs 158-170: the caller's role, or the AuthError
require_authenticated(c, header) ==
    LET token == authorization_bearer_token(header)
    IN  IF token = None THEN "missing_bearer_token"
        ELSE IF token[1] = c.seller_token THEN "seller"
        ELSE IF token[1] = c.buyer_token THEN "buyer"
        ELSE "invalid_bearer_token"

\* htlc.rs 493-495, 195-207: HASH160 of the key behind a P2WPKH address
pubkey_hash160(addr) == << "hash160", addr >>

\* LiquidWallet::address_at(cfg.seller_key_index), address_at(cfg.buyer_key_index)
SellerAddress == "wallet_seller"
BuyerAddress == "wallet_buyer"

parties_for_direction(direction) ==
    IF direction = "ln_to_liquid"
    THEN [ln_payer |-> "buyer", ln_payee |-> "seller", liquid_funder |-> "seller",
          liquid_claimer |-> "buyer", liquid_refunder |-> "seller"]
    ELSE [ln_payer |-> "seller", ln_payee |-> "buyer", liquid_funder |-> "buyer",
          liquid_claimer |-> "seller", liquid_refunder |-> "buyer"]

\* require_swap_role that lets either party through
require_swap_role_any(caller, required) == TRUE

\* service.rs 214-227
require_swap_role(caller, required) == caller = required

require_seller(caller) == caller = "seller"

require_buyer(caller) == caller = "buyer"

\* prost's encoding of a pb::Offer: the fields in the order of their
\* numbers, each with its value; proto3 leaves out a field that has its
\* default value (0, the empty string, no element)
encode(offer) ==
    LET field(n, v, default) == IF v = default THEN << >> ELSE << << n, v >> >>
    IN  field(1, offer.asset_id, "")
        \o field(2, offer.supported_directions, {})
        \o field(3, offer.price_msat_per_asset_unit, 0)
        \o field(4, offer.fee_subsidy_sats, 0)
        \o field(5, offer.refund_delta_blocks, 0)
        \o field(6, offer.invoice_expiry_secs, 0)
        \o field(7, offer.max_min_funding_confs, 0)

\* offer_id over the asset and the price alone
offer_id_of_price(offer) ==
    << "sha256", << << 1, offer.asset_id >>,
                    << 3, offer.price_msat_per_asset_unit >> >> >>

\* service.rs 111-117: SHA-256 of the encoded offer, in hex; SHA-256 is
\* collision free on the encodings here
offer_id(offer) == << "sha256", encode(offer) >>

(* store.rs: every operation is one SQL statement under the store mutex *)
get_quote(qs, id) == IF id \in DOMAIN qs THEN Some(qs[id]) ELSE None

get_swap(sw, id) == IF id \in DOMAIN sw THEN Some(sw[id]) ELSE None

insert_quote(qs, id, row) == qs @@ (id :> row)

set_quote_swap_id(qs, id, sid) == [qs EXCEPT ![id].swap_id = Some(sid)]

insert_swap(sw, id, row) == sw @@ (id :> row)

\* update_swap_status whose UPDATE is lost
update_swap_status_lost(sw, id, status) == sw

update_swap_status(sw, id, status) == [sw EXCEPT ![id].status = status]

upsert_swap_payment(sw, id, payment_id, preimage, status) ==
    [sw EXCEPT ![id].ln_payment_id = Some(payment_id),
               ![id].ln_preimage = Some(preimage),
               ![id].status = status]

\* upsert_swap_claim whose UPDATE also puts the claim's txid in funding_txid
upsert_swap_claim_over_funding(sw, id, claim_txid, status) ==
    [sw EXCEPT ![id].funding_txid = claim_txid,
               ![id].claim_txid = Some(claim_txid), ![id].status = status]

upsert_swap_claim(sw, id, claim_txid, status) ==
    [sw EXCEPT ![id].claim_txid = Some(claim_txid), ![id].status = status]

(* task records and responses *)
IdleTask ==
    [pc |-> "idle", q |-> "none", s |-> 0, addr |-> "none", inv |-> None,
     ph |-> None,
     pid |-> 0, pre |-> "none", fee |-> 0]

NoReply == [code |-> "none", kind |-> "none", val |-> << >>]

\* a response: Ok with the kind of message and its fields, or a Status with
\* its code and its message
Reply(code, kind, val) == [code |-> code, kind |-> kind, val |-> val]
Ok(kind, val) == Reply("ok", kind, val)
Internal(message) == Reply("internal", message, << >>)

\* outcome of a step of task t: it returns a response, or goes on
Done(rep) == [task |-> IdleTask, reply |-> rep]
Cont(rec) == [task |-> rec, reply |-> NoReply]
Step(t, out) ==
    /\ task' = [task EXCEPT ![t] = out.task]
    /\ reply' = out.reply

\* a request arrives and is handled by an idle task of the pool; the tasks
\* are interchangeable, so it is given to the first idle one
Accept(t) ==
    /\ task[t].pc = "idle"
    /\ \A u \in Tasks : u < t => task[u].pc # "idle"

IdleWatcher == [pc |-> "idle", tip |-> 0, list |-> << >>, cur |-> 0]

(* ------------------------------- Init --------------------------------- *)
InitWith(configs) ==
    /\ cfg \in configs
    /\ quotes = << >>
    /\ swaps = << >>
    /\ chain = << >>
    /\ tip = 0
    /\ lnPayments = << >>
    /\ lnInvoices = 0
    /\ walletLock = "free"
    /\ task = [t \in Tasks |-> IdleTask]
    /\ watcher = IdleWatcher
    /\ reply = NoReply

Init == InitWith(Configs)

(* ---------------------------- environment ----------------------------- *)
\* a block is mined: the tip advances and the mempool is confirmed
MineBlock ==
    /\ tip < MaxTip
    /\ tip' = tip + 1
    /\ chain' = [s \in DOMAIN chain |->
                   IF chain[s].height = 0
                   THEN [chain[s] EXCEPT !.height = tip + 1]
                   ELSE chain[s]]
    /\ reply' = NoReply
    /\ UNCHANGED << cfg, quotes, swaps, lnPayments, lnInvoices,
                    walletLock, task, watcher >>

\* the process stops and is started again, possibly with another config:
\* requests in flight and the watcher's cycle are lost, the store, the chain
\* and the LN node keep their state (swap_server.rs main)
Restart(configs) ==
    /\ cfg' \in configs
    /\ task' = [t \in Tasks |-> IdleTask]
    /\ watcher' = IdleWatcher
    /\ walletLock' = "free"
    /\ reply' = NoReply
    /\ UNCHANGED << quotes, swaps, chain, tip, lnPayments, lnInvoices >>

(* ----------------------------- CreateQuote ---------------------------- *)
\* service.rs 307-352: the early returns of create_quote, in their order; c
\* is the config of the process
create_quote_check(caller, direction, asset_amount, asset_id, min_funding_confs, c) ==
    IF caller \notin Callers THEN "unauthenticated"
    ELSE IF ~require_seller(caller) THEN "permission_denied"
    ELSE IF direction \notin Directions THEN "invalid_argument"
    ELSE IF asset_amount = 0 THEN "invalid_argument"
    ELSE IF asset_id = "malformed" THEN "invalid_argument"
    ELSE IF asset_id # c.sell_asset_id THEN "failed_precondition"
    ELSE IF min_funding_confs > MAX_MIN_FUNDING_CONFS THEN "invalid_argument"
    ELSE IF direction \notin current_offer(c).supported_directions
    THEN "failed_precondition"
    ELSE IF checked_mul(asset_amount,
                        current_offer(c).price_msat_per_asset_unit) = None
    THEN "invalid_argument"
    ELSE "proceed"

\* service.rs 303-378
create_quote(t, caller, direction, asset_amount, asset_id, min_funding_confs) ==
    /\ Accept(t)
    /\ \E id \in QuoteIds \ DOMAIN quotes :
         /\ create_quote_check(caller, direction, asset_amount, asset_id,
                               min_funding_confs, cfg) = "proceed"
         /\ LET offer == current_offer(cfg)
                total_price_msat ==
                    checked_mul(asset_amount, offer.price_msat_per_asset_unit)[1]
            IN  quotes' = insert_quote(quotes, id,
                            [offer_id |-> offer_id(offer),
                             offer |-> offer,
                             direction |-> direction,
                             asset_id |-> offer.asset_id,
                             asset_amount |-> asset_amount,
                             min_funding_confs |-> min_funding_confs,
                             total_price_msat |-> total_price_msat,
                             swap_id |-> None])
         /\ Step(t, Done(Ok("quote", << id >>)))
    /\ UNCHANGED << cfg, swaps, chain, tip, lnPayments, lnInvoices,
                    walletLock, watcher >>

(* ------------------------- GetQuote and GetSwap ----------------------- *)
\* service.rs 384-397: the early returns of get_quote (the handler); found is
\* what the store's get_quote returned
rpc_get_quote_check(caller, quote_id, found) ==
    IF caller \notin Callers THEN "unauthenticated"
    ELSE IF quote_id = "" THEN "invalid_argument"
    ELSE IF found = None THEN "not_found"
    ELSE "proceed"

\* service.rs 380-399
rpc_get_quote(t, caller, quote_id) ==
    /\ Accept(t)
    /\ rpc_get_quote_check(caller, quote_id, get_quote(quotes, quote_id)) = "proceed"
    /\ Step(t, Done(Ok("quote", << quote_id >>)))
    /\ UNCHANGED << cfg, quotes, swaps, chain, tip, lnPayments, lnInvoices,
                    walletLock, watcher >>

\* the swap_id of a request that is the empty string
EmptySwapId == 0

\* swap_record_to_proto that also copies the recorded preimage
swap_record_to_proto_with_preimage(rec) ==
    [direction |-> rec.direction, status |-> rec.status,
     payment_hash |-> rec.payment_hash, preimage |-> rec.ln_preimage]

\* service.rs 229-264: the pb::Swap of a row; the swap_id goes with it
swap_record_to_proto(rec) ==
    [direction |-> rec.direction,
     parties |-> parties_for_direction(rec.direction),
     bolt11_invoice |-> rec.bolt11_invoice,
     payment_hash |-> rec.payment_hash,
     status |-> rec.status,
     liquid |-> [asset_id |-> rec.asset_id,
                 asset_amount |-> rec.asset_amount,
                 fee_subsidy_sats |-> rec.fee_subsidy_sats,
                 refund_lock_height |-> rec.refund_lock_height,
                 p2wsh_address |-> rec.p2wsh_address,
                 witness_script |-> rec.witness_script,
                 funding_txid |-> rec.funding_txid,
                 asset_vout |-> rec.asset_vout,
                 lbtc_vout |-> rec.lbtc_vout,
                 min_funding_confs |-> rec.min_funding_confs],
     quote_id |-> rec.quote_id]

\* service.rs 640-653: the early returns of get_swap (the handler); found is
\* what the store's get_swap returned
rpc_get_swap_check(caller, swap_id, found) ==
    IF caller \notin Callers THEN "unauthenticated"
    ELSE IF swap_id = EmptySwapId THEN "invalid_argument"
    ELSE IF found = None THEN "not_found"
    ELSE "proceed"

\* service.rs 636-657
rpc_get_swap(t, caller, swap_id) ==
    /\ Accept(t)
    /\ rpc_get_swap_check(caller, swap_id, get_swap(swaps, swap_id)) = "proceed"
    /\ Step(t, Done(Ok("swap", << swap_id, swaps[swap_id].status,
                               swap_record_to_proto(swaps[swap_id]) >>)))
    /\ UNCHANGED << cfg, quotes, swaps, chain, tip, lnPayments, lnInvoices,
                    walletLock, watcher >>

(* ----------------------------- CreateSwap ----------------------------- *)
\* service.rs 421: the swap the quote already links to, if any
existing_swap_id(quote) == quote.swap_id

\* service.rs 434-440: the offer is the one the quote was made under
offer_unchanged(quote, offer) == offer_id(offer) = quote.offer_id

\* invoice_check without the comparison of the invoice's amount with the
\* quote's price
invoice_check_amount_unchecked(quote, inv) ==
    IF quote.direction = "ln_to_liquid"
    THEN IF inv # None THEN "invalid_argument" ELSE "proceed"
    ELSE IF inv = None THEN "invalid_argument"
    ELSE IF amount_msat_from_bolt11(inv) = None THEN "invalid_argument"
    ELSE IF amount_msat_from_bolt11(inv)[1] = None THEN "invalid_argument"
    ELSE IF is_expired_bolt11(inv) = None THEN "invalid_argument"
    ELSE IF is_expired_bolt11(inv)[1] THEN "invalid_argument"
    ELSE IF payment_hash_from_bolt11(inv) = None THEN "invalid_argument"
    ELSE "proceed"

\* service.rs 478-527: what the invoice rules of the quote's direction say of
\* the request's invoice
invoice_check(quote, inv) ==
    IF quote.direction = "ln_to_liquid"
    THEN IF inv # None THEN "invalid_argument" ELSE "proceed"
    ELSE IF inv = None THEN "invalid_argument"
    ELSE IF amount_msat_from_bolt11(inv) = None THEN "invalid_argument"
    ELSE IF amount_msat_from_bolt11(inv)[1] = None THEN "invalid_argument"
    ELSE IF amount_msat_from_bolt11(inv)[1][1] # quote.total_price_msat
    THEN "invalid_argument"
    ELSE IF is_expired_bolt11(inv) = None THEN "invalid_argument"
    ELSE IF is_expired_bolt11(inv)[1] THEN "invalid_argument"
    ELSE IF payment_hash_from_bolt11(inv) = None THEN "invalid_argument"
    ELSE "proceed"

\* create_swap_check with the offer compared before the link is looked at
create_swap_check_offer_first(caller, quote_id, found, addr, inv, c) ==
    IF caller \notin Callers THEN "unauthenticated"
    ELSE IF ~require_buyer(caller) THEN "permission_denied"
    ELSE IF quote_id = "" THEN "invalid_argument"
    ELSE IF addr = "" THEN "invalid_argument"
    ELSE IF found = None THEN "not_found"
    ELSE IF ~offer_unchanged(found[1], current_offer(c)) THEN "failed_precondition"
    ELSE IF existing_swap_id(found[1]) # None THEN "existing"
    ELSE "proceed"

\* service.rs 405-527: the early returns of create_swap, in their order;
\* found is what get_quote returned, c is the config of the process
create_swap_check(caller, quote_id, found, addr, inv, c) ==
    IF caller \notin Callers THEN "unauthenticated"
    ELSE IF ~require_buyer(caller) THEN "permission_denied"
    ELSE IF quote_id = "" THEN "invalid_argument"
    ELSE IF addr = "" THEN "invalid_argument"
    ELSE IF found = None THEN "not_found"
    ELSE IF existing_swap_id(found[1]) # None THEN "existing"
    ELSE IF ~offer_unchanged(found[1], current_offer(c)) THEN "failed_precondition"
    ELSE IF found[1].asset_id # c.sell_asset_id THEN "failed_precondition"
    ELSE IF addr = "malformed" THEN "invalid_argument"
    ELSE IF found[1].min_funding_confs > MAX_MIN_FUNDING_CONFS
    THEN "invalid_argument"
    ELSE IF addr = "not_p2wpkh" THEN "invalid_argument"
    ELSE IF addr = "other_network" THEN "invalid_argument"
    ELSE invoice_check(found[1], inv)

\* service.rs 421-432: the idempotent return reads the linked swap
create_swap_existing(t, caller, q, addr, inv) ==
    /\ Accept(t)
    /\ create_swap_check(caller, q, get_quote(quotes, q), addr, inv, cfg) = "existing"
    /\ LET sid == existing_swap_id(quotes[q])[1]
       IN  Step(t, IF sid \in DOMAIN swaps
                   THEN Done(Ok("swap", << sid, swaps[sid].status,
                                           swap_record_to_proto(swaps[sid]) >>))
                   ELSE Done(Internal("quote refers to missing swap")))
    /\ UNCHANGED << cfg, quotes, swaps, chain, tip, lnPayments, lnInvoices,
                    walletLock, watcher >>

\* service.rs 405-527: the checks, network() under the wallet mutex, and the
\* invoice (created on the LN node for the quote's price, or taken from the
\* request)
create_swap_begin(t, caller, q, addr, inv) ==
    /\ Accept(t)
    /\ create_swap_check(caller, q, get_quote(quotes, q), addr, inv, cfg) = "proceed"
    /\ walletLock = "free"
    /\ LET go(invoice) ==
               Cont([IdleTask EXCEPT !.pc = "cs_fund", !.q = q, !.addr = addr,
                                     !.inv = invoice,
                                     !.ph = payment_hash_from_bolt11(invoice)])
       IN  IF quotes[q].direction = "ln_to_liquid"
           THEN \/ \* create_invoice fails
                   /\ Step(t, Done(Internal("create invoice")))
                   /\ UNCHANGED lnInvoices
                \/ /\ lnInvoices < MaxInvoices
                   /\ lnInvoices' = lnInvoices + 1
                   /\ \E h \in Hashes :
                        Step(t, go(Bolt11(h, Some(quotes[q].total_price_msat),
                                          FALSE)))
           ELSE /\ Step(t, go(inv))
                /\ UNCHANGED lnInvoices
    /\ UNCHANGED << cfg, quotes, swaps, chain, tip, lnPayments,
                    walletLock, watcher >>

\* htlc_spec with the buyer as the claimer whatever the direction
htlc_spec_buyer_claims(direction, payment_hash, buyer_address, refund_lock_height) ==
    [payment_hash |-> payment_hash,
     claimer |-> pubkey_hash160(buyer_address),
     refunder |-> pubkey_hash160(SellerAddress),
     refund_lock_height |-> refund_lock_height]

\* service.rs 551-561: the HTLC script's fields
htlc_spec(direction, payment_hash, buyer_address, refund_lock_height) ==
    [payment_hash |-> payment_hash,
     claimer |-> IF direction = "ln_to_liquid"
                 THEN pubkey_hash160(buyer_address)
                 ELSE pubkey_hash160(SellerAddress),
     refunder |-> IF direction = "ln_to_liquid"
                  THEN pubkey_hash160(SellerAddress)
                  ELSE pubkey_hash160(buyer_address),
     refund_lock_height |-> refund_lock_height]

\* service.rs 477: Uuid::new_v4(), a fresh id; the ids are numbered in the
\* order they are drawn
next_swap_id == Cardinality(DOMAIN swaps) + 1

\* service.rs 538-607: one wallet critical section with the store writes in it
create_swap_fund(t, max_swaps) ==
    /\ task[t].pc = "cs_fund"
    /\ walletLock = "free"
    /\ LET r == task[t]
           quote == quotes[r.q]
           refund_lock_height ==
               refund_lock_height_at(tip, cfg.refund_delta_blocks)
           spec == htlc_spec(quote.direction, r.ph[1], r.addr, refund_lock_height)
           script == witness_script(spec)
       IN  \/ \* build_and_broadcast_funding fails
              /\ Step(t, Done(Internal("fund htlc")))
              /\ UNCHANGED << quotes, swaps, chain >>
           \/ \E sid \in { next_swap_id } :
              /\ sid <= max_swaps
              /\ chain' = chain @@ (sid :> [height |-> 0, spent |-> "no",
                                            txid |-> << "funding", sid >>,
                                            script |-> spec])
              /\ swaps' = insert_swap(swaps, sid,
                            [quote_id |-> r.q,
                             direction |-> quote.direction,
                             bolt11_invoice |-> r.inv,
                             payment_hash |-> r.ph[1],
                             asset_id |-> cfg.sell_asset_id,
                             asset_amount |-> quote.asset_amount,
                             total_price_msat |-> quote.total_price_msat,
                             buyer_liquid_address |-> r.addr,
                             fee_subsidy_sats |-> cfg.fee_subsidy_sats,
                             refund_lock_height |-> refund_lock_height,
                             p2wsh_address |-> p2wsh_address(script),
                             witness_script |-> script,
                             funding_txid |-> << "funding", sid >>,
                             asset_vout |-> 0,
                             lbtc_vout |-> 1,
                             min_funding_confs |-> quote.min_funding_confs,
                             ln_payment_id |-> None,
                             ln_preimage |-> None,
                             claim_txid |-> None,
                             status |-> "created"])
              /\ quotes' = set_quote_swap_id(quotes, r.q, sid)
              /\ Step(t, Cont([r EXCEPT !.pc = "cs_wait", !.s = sid]))
    /\ UNCHANGED << cfg, tip, lnPayments, lnInvoices, walletLock, watcher >>

\* tx_confirmations_for_script that counts a transaction of the mempool as
\* confirmed at the tip
tx_confirmations_from_mempool(height, tip_height) ==
    IF height <= 0 THEN tip_height + 1
    ELSE IF tip_height < height THEN 0
    ELSE tip_height - height + 1

\* wallet.rs 138-162
tx_confirmations_for_script(height, tip_height) ==
    IF height <= 0 THEN 0
    ELSE IF tip_height < height THEN 0
    ELSE tip_height - height + 1

\* service.rs 266-298: one poll of the wait loop; the wallet mutex is taken
\* for the poll and released before the sleep
create_swap_poll(t) ==
    /\ task[t].pc = "cs_wait"
    /\ walletLock = "free"
    /\ LET r == task[t]
           confs == tx_confirmations_for_script(chain[r.s].height, tip)
       IN  Step(t, IF confs >= swaps[r.s].min_funding_confs
                   THEN Cont([r EXCEPT !.pc = "cs_mark"])
                   ELSE \* the deadline has passed
                        Done(Internal("wait funding confirmations")))
    /\ UNCHANGED << cfg, quotes, swaps, chain, tip, lnPayments, lnInvoices,
                    walletLock, watcher >>

\* service.rs 618-633
create_swap_mark_funded(t) ==
    /\ task[t].pc = "cs_mark"
    /\ LET r == task[t] IN
       /\ swaps' = update_swap_status(swaps, r.s, "funded")
       /\ Step(t, Done(Ok("swap", << r.s, "funded",
                   swap_record_to_proto([swaps[r.s] EXCEPT !.status = "funded"]) >>)))
    /\ UNCHANGED << cfg, quotes, chain, tip, lnPayments, lnInvoices,
                    walletLock, watcher >>

(* ----------------------- CreateLightningPayment ----------------------- *)
\* payment_recorded that also asks for the status the payment left
payment_recorded_while_paid(rec) ==
    rec.ln_payment_id # None /\ rec.ln_preimage # None /\ rec.status = "paid"

\* service.rs 683-685: a payment is already recorded
payment_recorded(rec) == rec.ln_payment_id # None /\ rec.ln_preimage # None

\* payable that lets a swap be paid before its funding is confirmed
payable_before_funding(rec) == rec.status \in {"created", "funded"}

\* service.rs 694: the status the payment requires
payable(rec) == rec.status = "funded"

\* preimage_matches without the comparison
preimage_unchecked(preimage, payment_hash) == TRUE

\* preimage_matches with the comparison the wrong way round
preimage_differs(preimage, payment_hash) == sha256_preimage(preimage) # payment_hash

\* service.rs 715-723
preimage_matches(preimage, payment_hash) == sha256_preimage(preimage) = payment_hash

\* service.rs 663-696: the early returns of create_lightning_payment; found
\* is what get_swap returned
create_lightning_payment_check(caller, swap_id, found) ==
    IF caller \notin Callers THEN "unauthenticated"
    ELSE IF swap_id = EmptySwapId THEN "invalid_argument"
    ELSE IF found = None THEN "not_found"
    ELSE IF ~require_swap_role(caller,
                parties_for_direction(found[1].direction).ln_payer)
    THEN "permission_denied"
    ELSE IF payment_recorded(found[1]) THEN "recorded"
    ELSE IF ~payable(found[1]) THEN "failed_precondition"
    ELSE "proceed"

\* service.rs 683-692: the idempotent return
create_lightning_payment_recorded(t, caller, s) ==
    /\ Accept(t)
    /\ create_lightning_payment_check(caller, s, get_swap(swaps, s)) = "recorded"
    /\ Step(t, Done(Ok("payment",
                       << swaps[s].ln_payment_id[1], swaps[s].ln_preimage[1] >>)))
    /\ UNCHANGED << cfg, quotes, swaps, chain, tip, lnPayments, lnInvoices,
                    walletLock, watcher >>

\* service.rs 663-696: get_swap, role, idempotence, status
create_lightning_payment_begin(t, caller, s) ==
    /\ Accept(t)
    /\ create_lightning_payment_check(caller, s, get_swap(swaps, s)) = "proceed"
    /\ Step(t, Cont([IdleTask EXCEPT !.pc = "clp_pay", !.s = s]))
    /\ UNCHANGED << cfg, quotes, swaps, chain, tip, lnPayments, lnInvoices,
                    walletLock, watcher >>

\* service.rs 698-702 and ldk.rs 46-57: pay_invoice
create_lightning_payment_pay(t) ==
    /\ task[t].pc = "clp_pay"
    /\ LET r == task[t] IN
       \/ /\ Step(t, Done(Internal("pay invoice")))
          /\ UNCHANGED lnPayments
       \/ /\ Len(lnPayments) < MaxPayments
          /\ lnPayments' = Append(lnPayments, r.s)
          /\ Step(t, Cont([r EXCEPT !.pc = "clp_wait",
                                    !.pid = Len(lnPayments) + 1]))
    /\ UNCHANGED << cfg, quotes, swaps, chain, tip, lnInvoices,
                    walletLock, watcher >>

\* service.rs 715-742: the LN client has handed back a preimage: the hash
\* check and the store write
create_lightning_payment_settle(t, preimage) ==
    /\ task[t].pc = "clp_wait"
    /\ LET r == task[t] IN
       IF preimage_matches(preimage, swaps[r.s].payment_hash)
       THEN /\ swaps' = upsert_swap_payment(swaps, r.s, r.pid, preimage, "paid")
            /\ Step(t, Done(Ok("payment", << r.pid, preimage >>)))
       ELSE /\ Step(t, Done(Internal("preimage hash mismatch")))
            /\ UNCHANGED swaps
    /\ UNCHANGED << cfg, quotes, chain, tip, lnPayments, lnInvoices,
                    walletLock, watcher >>

\* service.rs 709-713 and ldk.rs 59-99: wait_preimage runs out of time
create_lightning_payment_timeout(t) ==
    /\ task[t].pc = "clp_wait"
    /\ Step(t, Done(Internal("wait preimage")))
    /\ UNCHANGED << cfg, quotes, swaps, chain, tip, lnPayments, lnInvoices,
                    walletLock, watcher >>

(* -------------------------- CreateAssetClaim -------------------------- *)
\* claim_recorded without the look at claim_txid
claim_recorded_never(rec) == FALSE

\* service.rs 768: a claim is already recorded
claim_recorded(rec) == rec.claim_txid # None

\* preimage_known that takes a recorded payment id for the preimage
preimage_known_by_status(rec) == rec.status # "created"

\* service.rs 772-775: the preimage the claim needs
preimage_known(rec) == rec.ln_preimage # None

\* the chain accepts a spend of the HTLC by its IF branch (htlc.rs 26-51)
ClaimAccepted(s, preimage, signer_address) ==
    /\ s \in DOMAIN chain
    /\ chain[s].spent = "no"
    /\ sha256_preimage(preimage) = chain[s].script.payment_hash
    /\ pubkey_hash160(signer_address) = chain[s].script.claimer

\* the chain accepts a spend of the HTLC by its ELSE branch (htlc.rs 26-51)
RefundAccepted(s, signer_address) ==
    /\ s \in DOMAIN chain
    /\ chain[s].spent = "no"
    /\ tip >= chain[s].script.refund_lock_height
    /\ pubkey_hash160(signer_address) = chain[s].script.refunder

\* service.rs 748-775: the early returns of create_asset_claim; found is
\* what get_swap returned
create_asset_claim_check(caller, swap_id, found) ==
    IF caller \notin Callers THEN "unauthenticated"
    ELSE IF swap_id = EmptySwapId THEN "invalid_argument"
    ELSE IF found = None THEN "not_found"
    ELSE IF ~require_swap_role(caller,
                parties_for_direction(found[1].direction).liquid_claimer)
    THEN "permission_denied"
    ELSE IF claim_recorded(found[1]) THEN "recorded"
    ELSE IF ~preimage_known(found[1]) THEN "failed_precondition"
    ELSE "proceed"

\* service.rs 768-770: the idempotent return
create_asset_claim_recorded(t, caller, s) ==
    /\ Accept(t)
    /\ create_asset_claim_check(caller, s, get_swap(swaps, s)) = "recorded"
    /\ Step(t, Done(Ok("claim", << swaps[s].claim_txid[1] >>)))
    /\ UNCHANGED << cfg, quotes, swaps, chain, tip, lnPayments, lnInvoices,
                    walletLock, watcher >>

\* service.rs 748-792
create_asset_claim_begin(t, caller, s, fee) ==
    /\ Accept(t)
    /\ create_asset_claim_check(caller, s, get_swap(swaps, s)) = "proceed"
    /\ Step(t, Cont([IdleTask EXCEPT !.pc = "cac_claim", !.s = s,
                                     !.pre = swaps[s].ln_preimage[1],
                                     !.fee = IF fee = 0
                                             THEN DEFAULT_CLAIM_FEE_SATS
                                             ELSE fee]))
    /\ UNCHANGED << cfg, quotes, swaps, chain, tip, lnPayments, lnInvoices,
                    walletLock, watcher >>

\* address_mismatch without the comparison
address_mismatch_ignored(rec, claimer_receive) == FALSE

\* service.rs 798-815: for LN_TO_LIQUID the address at buyer_key_index is
\* compared with the swap's buyer_liquid_address
address_mismatch(rec, claimer_receive) ==
    rec.direction = "ln_to_liquid" /\ claimer_receive # rec.buyer_liquid_address

\* service.rs 794-857: one wallet critical section with the store write in it
create_asset_claim_claim(t) ==
    /\ task[t].pc = "cac_claim"
    /\ walletLock = "free"
    /\ LET r == task[t]
           rec == swaps[r.s]
           claimer == IF rec.direction = "ln_to_liquid"
                      THEN BuyerAddress ELSE SellerAddress
           txid == << "claim", r.s, r.fee >>
       IN  IF address_mismatch(rec, claimer)
           THEN /\ Step(t, Done(Internal("buyer_liquid_address mismatch")))
                /\ UNCHANGED << swaps, chain >>
           ELSE IF ~(r.fee < rec.fee_subsidy_sats)
           THEN /\ Step(t, Done(Internal("build claim tx")))
                /\ UNCHANGED << swaps, chain >>
           ELSE \/ /\ Step(t, Done(Internal("broadcast claim tx")))
                   /\ UNCHANGED << swaps, chain >>
                \/ /\ ClaimAccepted(r.s, r.pre, claimer)
                   /\ chain' = [chain EXCEPT ![r.s].spent = "claimed"]
                   /\ swaps' = upsert_swap_claim(swaps, r.s, txid, "claimed")
                   /\ Step(t, Done(Ok("claim", << txid >>)))
    /\ UNCHANGED << cfg, quotes, tip, lnPayments, lnInvoices,
                    walletLock, watcher >>

(* --------------------------- refund watcher --------------------------- *)
\* refund_eligible without the comparison of heights
refund_eligible_any_height(status, tip_height, refund_lock_height) ==
    status \in {"created", "funded"}

\* the empty list: the cycle gives up its other swaps
RestNone(list, s) == << >>

\* swap_server.rs 228-233: the swaps of the list the cycle refunds
refund_eligible(status, tip_height, refund_lock_height) ==
    /\ status \in {"created", "funded"}
    /\ ~(tip_height < refund_lock_height)

\* the list without the row of swap s
Rest(list, s) == [x \in DOMAIN list \ {s} |-> list[x]]

\* swap_server.rs 218-226: the wallet mutex is taken for the whole cycle;
\* sync, tip_height, list_swaps (ORDER BY swap_id)
refund_once_begin ==
    /\ watcher.pc = "idle"
    /\ walletLock = "free"
    /\ walletLock' = "watcher"
    /\ watcher' = [pc |-> "loop", tip |-> tip,
                   list |-> [s \in DOMAIN swaps |-> swaps[s].status], cur |-> 0]
    /\ reply' = NoReply
    /\ UNCHANGED << cfg, quotes, swaps, chain, tip, lnPayments, lnInvoices,
                    task >>

\* swap_server.rs 280-283: the Err arm logs and the loop goes on with the
\* swaps that are left
rest_after_failure(list, s) == Rest(list, s)

\* swap_server.rs 235-253: the HtlcFunding of a stored swap
funding_of(rec) ==
    [funding_txid |-> rec.funding_txid, asset_vout |-> rec.asset_vout,
     lbtc_vout |-> rec.lbtc_vout, asset_id |-> rec.asset_id,
     asset_amount |-> rec.asset_amount, policy_asset |-> "lbtc",
     fee_subsidy_sats |-> rec.fee_subsidy_sats]

\* swap_server.rs 255-270: the refund transaction of a stored swap, paid to
\* the address at seller_key_index and signed with the key at that index
refund_once_tx(rec) ==
    refund_tx_from_witness_script(rec.witness_script, rec.refund_lock_height,
        funding_of(rec), SellerAddress, secret_key_of(SellerAddress),
        RefundFeeSats)

\* swap_server.rs 235-283: the refund transaction of swap s is built and
\* broadcast; a broadcast that fails is logged and the cycle goes on
refund_once_broadcast(s) ==
    /\ watcher.pc = "loop"
    /\ s \in DOMAIN watcher.list
    /\ refund_eligible(watcher.list[s], watcher.tip, swaps[s].refund_lock_height)
    /\ refund_once_tx(swaps[s]) # None
    /\ \/ /\ watcher' = [watcher EXCEPT !.list = rest_after_failure(watcher.list, s)]
          /\ UNCHANGED << chain, walletLock >>
       \/ /\ RefundAccepted(s, refund_once_tx(swaps[s])[1].input[1].script_witness[2][2])
          /\ chain' = [chain EXCEPT ![s].spent = "refunded"]
          /\ watcher' = [watcher EXCEPT !.pc = "write", !.cur = s]
          /\ UNCHANGED walletLock

\* swap_server.rs 227-283: the next swap of the list, which list_swaps has
\* ordered by swap_id (store.rs 374): the least id left in it
refund_once_step ==
    /\ watcher.pc = "loop"
    /\ \E s \in { x \in DOMAIN watcher.list : \A y \in DOMAIN watcher.list : x <= y } :
         \/ /\ ~refund_eligible(watcher.list[s], watcher.tip,
                                swaps[s].refund_lock_height)
            /\ watcher' = [watcher EXCEPT !.list = Rest(watcher.list, s)]
            /\ UNCHANGED << chain, walletLock >>
         \/ \* refund_tx_from_witness_script fails: the cycle ends with the error
            /\ refund_eligible(watcher.list[s], watcher.tip,
                               swaps[s].refund_lock_height)
            /\ refund_once_tx(swaps[s]) = None
            /\ watcher' = IdleWatcher
            /\ walletLock' = "free"
            /\ UNCHANGED chain
         \/ refund_once_broadcast(s)
    /\ reply' = NoReply
    /\ UNCHANGED << cfg, quotes, swaps, tip, lnPayments, lnInvoices, task >>

\* swap_server.rs 273-279: the status write after a successful broadcast
refund_once_write ==
    /\ watcher.pc = "write"
    /\ swaps' = update_swap_status(swaps, watcher.cur, "refunded")
    /\ watcher' = [watcher EXCEPT !.pc = "loop",
                                  !.list = Rest(watcher.list, watcher.cur),
                                  !.cur = 0]
    /\ reply' = NoReply
    /\ UNCHANGED << cfg, quotes, chain, tip, lnPayments, lnInvoices,
                    walletLock, task >>

\* refund_once_end that keeps the wallet mutex
refund_once_end_locked ==
    /\ watcher.pc = "loop"
    /\ DOMAIN watcher.list = {}
    /\ watcher' = IdleWatcher
    /\ reply' = NoReply
    /\ UNCHANGED << cfg, quotes, swaps, chain, tip, lnPayments, lnInvoices,
                    walletLock, task >>

\* swap_server.rs 286: the list is done, the wallet mutex is released
refund_once_end ==
    /\ watcher.pc = "loop"
    /\ DOMAIN watcher.list = {}
    /\ watcher' = IdleWatcher
    /\ walletLock' = "free"
    /\ reply' = NoReply
    /\ UNCHANGED << cfg, quotes, swaps, chain, tip, lnPayments, lnInvoices,
                    task >>

(* --------------------------- poisoned mutex --------------------------- *)
\* what a client sees of a handler whose task panicked: no Status from the
\* service
Panicked(message) == Reply("panicked", message, << >>)

\* the refund worker's thread panics in its cycle, while it holds the wallet
\* mutex (swap_server.rs 218-286): the mutex is left poisoned, the worker's
\* loop logs the join error and goes on (swap_server.rs 191-207)
refund_once_panics ==
    /\ watcher.pc \in {"loop", "write"}
    /\ walletLock = "watcher"
    /\ walletLock' = "poisoned"
    /\ watcher' = IdleWatcher
    /\ reply' = NoReply
    /\ UNCHANGED << cfg, quotes, swaps, chain, tip, lnPayments, lnInvoices,
                    task >>

\* service.rs 464-469: create_swap takes the wallet mutex in the handler
\* itself, after its checks; expect panics on a poisoned mutex
create_swap_poisoned(t, caller, q, addr, inv) ==
    /\ Accept(t)
    /\ create_swap_check(caller, q, get_quote(quotes, q), addr, inv, cfg) = "proceed"
    /\ walletLock = "poisoned"
    /\ Step(t, Done(Panicked("wallet mutex poisoned")))
    /\ UNCHANGED << cfg, quotes, swaps, chain, tip, lnPayments, lnInvoices,
                    walletLock, watcher >>

\* service.rs 539 and 277: the blocking section of create_swap takes the
\* wallet mutex for the funding and for every poll; its panic is the
\* JoinError that 625-626 turns into Status::internal
create_swap_join_error(t) ==
    /\ task[t].pc \in {"cs_fund", "cs_wait"}
    /\ walletLock = "poisoned"
    /\ Step(t, Done(Internal("join")))
    /\ UNCHANGED << cfg, quotes, swaps, chain, tip, lnPayments, lnInvoices,
                    walletLock, watcher >>

\* swap_server.rs 218: the cycle panics where it takes the wallet mutex; the
\* worker's loop logs the join error (202-204) and sleeps until the next one
refund_once_poisoned ==
    /\ watcher.pc \in {"idle", "join_error"}
    /\ walletLock = "poisoned"
    /\ watcher' = [IdleWatcher EXCEPT !.pc = "join_error"]
    /\ reply' = NoReply
    /\ UNCHANGED << cfg, quotes, swaps, chain, tip, lnPayments, lnInvoices,
                    walletLock, task >>

(* ------------------------------ the mutexes --------------------------- *)
\* the acquisitions and releases of the two mutexes in each step, in the
\* order of the code: service.rs 371-375, 391-394, 414-426, 464-469,
\* 539-607, 276-282, 618-622, 646-650, 670-673, 726-729, 755-758, 795-857,
\* swap_server.rs 218-226, 275-279, 286
lock_sequence ==
    [create_quote |-> << "lock store", "unlock store" >>,
     rpc_get_quote |-> << "lock store", "unlock store" >>,
     rpc_get_swap |-> << "lock store", "unlock store" >>,
     create_swap_existing |-> << "lock store", "unlock store",
                                 "lock store", "unlock store" >>,
     create_swap_begin |-> << "lock store", "unlock store",
                              "lock wallet", "unlock wallet" >>,
     create_swap_fund |-> << "lock wallet", "lock store",
                             "unlock store", "unlock wallet" >>,
     create_swap_poll |-> << "lock wallet", "unlock wallet" >>,
     create_swap_mark_funded |-> << "lock store", "unlock store" >>,
     create_lightning_payment_recorded |-> << "lock store", "unlock store" >>,
     create_lightning_payment_begin |-> << "lock store", "unlock store" >>,
     create_lightning_payment_pay |-> << >>,
     create_lightning_payment_settle |-> << "lock store", "unlock store" >>,
     create_lightning_payment_timeout |-> << >>,
     create_asset_claim_recorded |-> << "lock store", "unlock store" >>,
     create_asset_claim_begin |-> << "lock store", "unlock store" >>,
     create_asset_claim_claim |-> << "lock wallet", "lock store",
                                     "unlock store", "unlock wallet" >>,
     refund_once_begin |-> << "lock wallet", "lock store", "unlock store" >>,
     refund_once_step |-> << >>,
     refund_once_write |-> << "lock store", "unlock store" >>,
     refund_once_end |-> << "unlock wallet" >>]

(* ------------------------------ behaviour ----------------------------- *)
\* the role a request with header h is authenticated as, if it is: no
\* handler takes a step for a caller that is not in Callers
caller_of(h) == { require_authenticated(cfg, h) } \cap Callers

\* the swap_id of a request: a swap's id, the empty string, or an id the
\* store has never given out
SwapIdInputs == DOMAIN swaps \cup {EmptySwapId, next_swap_id}

Environment(configs) == MineBlock \/ Restart(configs)

\* In the request actions the task is chosen before the request is: Accept(t)
\* is the first guard of every handler.
Quoting(amounts) ==
    \E t \in Tasks :
        /\ Accept(t)
        /\ QuoteIds \ DOMAIN quotes # {}
        /\ \E h \in Headers : \E c \in caller_of(h), d \in DirectionInputs, a \in amounts,
              x \in AssetIdInputs, m \in MinConfsChoices :
               create_quote(t, c, d, a, x, m)

Reading ==
    \/ \E t \in Tasks :
         /\ Accept(t)
         /\ \E h \in Headers : \E c \in caller_of(h), q \in QuoteIdInputs :
               rpc_get_quote(t, c, q)
    \/ \E t \in Tasks :
         /\ Accept(t)
         /\ \E h \in Headers : \E c \in caller_of(h), s \in SwapIdInputs :
               rpc_get_swap(t, c, s)

\* The requests of caller c for quote q that find the quote's swap (service.rs
\* 421-432) are answered from the store alone, whatever their address and
\* invoice: one of them stands for them all.
existing_request(c, q, addresses, invoices) ==
    LET found == { r \in addresses \X invoices :
                     create_swap_check(c, q, get_quote(quotes, q), r[1], r[2], cfg)
                         = "existing" }
    IN  IF get_quote(quotes, q) = None THEN {}
        ELSE IF existing_swap_id(quotes[q]) = None THEN {}
        ELSE IF found = {} THEN {}
        ELSE {CHOOSE r \in found : TRUE}

Creating(max_swaps, addresses, invoices) ==
    \/ \E t \in Tasks :
         /\ Accept(t)
         /\ \E h \in Headers : \E c \in caller_of(h), q \in QuoteIdInputs :
               \E r \in existing_request(c, q, addresses, invoices) :
                   create_swap_existing(t, c, q, r[1], r[2])
    \* what create_swap_begin asks of the process and of the quote is asked
    \* before the address and the invoice of the request are drawn
    \/ \E t \in Tasks :
         /\ Accept(t)
         /\ walletLock = "free"
         /\ \E h \in Headers : \E c \in caller_of(h), q \in QuoteIdInputs \cap DOMAIN quotes :
               /\ existing_swap_id(quotes[q]) = None
               /\ \E a \in addresses, i \in invoices : create_swap_begin(t, c, q, a, i)
    \/ \E t \in Tasks : create_swap_fund(t, max_swaps)
    \/ \E t \in Tasks : create_swap_poll(t)
    \/ \E t \in Tasks : create_swap_mark_funded(t)

Paying ==
    \/ \E t \in Tasks :
         /\ Accept(t)
         /\ \E h \in Headers : \E c \in caller_of(h), s \in SwapIdInputs :
               create_lightning_payment_recorded(t, c, s)
    \/ \E t \in Tasks :
         /\ Accept(t)
         /\ \E h \in Headers : \E c \in caller_of(h), s \in SwapIdInputs :
               create_lightning_payment_begin(t, c, s)
    \/ \E t \in Tasks : create_lightning_payment_pay(t)
    \/ \E t \in Tasks, p \in Preimages : create_lightning_payment_settle(t, p)
    \/ \E t \in Tasks : create_lightning_payment_timeout(t)

Claiming ==
    \/ \E t \in Tasks :
         /\ Accept(t)
         /\ \E h \in Headers : \E c \in caller_of(h), s \in SwapIdInputs :
               create_asset_claim_recorded(t, c, s)
    \/ \E t \in Tasks :
         /\ Accept(t)
         /\ \E h \in Headers : \E c \in caller_of(h), s \in SwapIdInputs, f \in ClaimFeeChoices :
               create_asset_claim_begin(t, c, s, f)
    \/ \E t \in Tasks : create_asset_claim_claim(t)

Refunding ==
    \/ refund_once_begin
    \/ refund_once_step
    \/ refund_once_write
    \/ refund_once_end

\* the requests of Spec: one amount, the addresses that parse and one that
\* does not, no invoice or the invoice for the quote's price
SomeAmounts == {0, 1}
SomeAddresses == BuyerAddresses \cup {"malformed"}
SomeInvoices == {None} \cup { Bolt11(h, Some(1), FALSE) : h \in Hashes }

\* the service with its watcher: every handler, at most MaxSwaps swaps; the
\* process is restarted with the config it had (a restart that changes the
\* config, which only CreateQuote and CreateSwap read, is in NextCreate and
\* NextOffer)
Next ==
    \/ Environment({BaseConfig})
    \/ Quoting(SomeAmounts)
    \/ Reading
    \/ Creating(MaxSwaps, SomeAddresses, SomeInvoices)
    \/ Paying
    \/ Claiming
    \/ Refunding

Spec == InitWith({BaseConfig}) /\ [][Next]_vars

\* the creation of swaps alone, with room for MaxQuoteSwaps swaps
NextCreate ==
    \/ Environment(Configs)
    \/ Quoting(SomeAmounts)
    \/ Creating(MaxQuoteSwaps, SomeAddresses, SomeInvoices)
    \/ Refunding

SpecCreate == Init /\ [][NextCreate]_vars

\* the creation of quotes and swaps under every change of the offer, with
\* every amount, address and invoice a request may carry
NextOffer ==
    \/ Environment(OfferConfigs)
    \/ Quoting(AmountInputs)
    \/ Reading
    \/ Creating(MaxSwaps, AddressInputs, InvoiceInputs)

SpecOffer == InitWith(OfferConfigs) /\ [][NextOffer]_vars

\* a process that is not restarted, with its watcher scheduled fairly: the
\* worker's loop (swap_server.rs 182-210) runs a cycle every poll interval
NextRefund ==
    \/ MineBlock
    \/ Quoting(SomeAmounts)
    \/ Creating(MaxSwaps, SomeAddresses, SomeInvoices)
    \/ Refunding

SpecRefund == Init /\ [][NextRefund]_vars /\ WF_vars(Refunding)

\* a process whose wallet mutex can be poisoned by a panic of its holder
Poisoning ==
    \/ refund_once_panics
    \/ \E t \in Tasks :
         /\ Accept(t)
         /\ \E h \in Headers : \E c \in caller_of(h), q \in QuoteIdInputs,
               a \in SomeAddresses, i \in SomeInvoices :
               create_swap_poisoned(t, c, q, a, i)
    \/ \E t \in Tasks : create_swap_join_error(t)
    \/ refund_once_poisoned

NextPoison ==
    \/ MineBlock
    \/ Quoting(SomeAmounts)
    \/ Creating(MaxSwaps, SomeAddresses, SomeInvoices)
    \/ Refunding
    \/ Poisoning

SpecPoison == Init /\ [][NextPoison]_vars

(* ---------------------- the store, by itself -------------------------- *)
MaxStoreIds == 2
\* the swap_id of a store call: TEXT PRIMARY KEY, compared as the ids are
StoreIds == 1..MaxStoreIds

\* a row as create_swap inserts it
StoreRow(id) ==
    [quote_id |-> "quote_1", direction |-> "ln_to_liquid",
     bolt11_invoice |-> Bolt11(sha256_preimage("preimage_x"), Some(1), FALSE),
     payment_hash |-> sha256_preimage("preimage_x"),
     asset_id |-> "asset_a", asset_amount |-> id, total_price_msat |-> id,
     buyer_liquid_address |-> "wallet_buyer",
     fee_subsidy_sats |-> FeeSubsidySats, refund_lock_height |-> id,
     p2wsh_address |-> << "p2wsh", id >>, witness_script |-> << >>,
     funding_txid |-> << "funding", id >>, asset_vout |-> 0, lbtc_vout |-> 1,
     min_funding_confs |-> 0, ln_payment_id |-> None, ln_preimage |-> None,
     claim_txid |-> None, status |-> "created"]

\* rows_updated that counts a row for an id the table does not hold
rows_updated_any(sw, id) == 1

\* store.rs 293-299, 312-324, 335-346: the rows an UPDATE ... WHERE
\* swap_id = ?1 changes
rows_updated(sw, id) == IF id \in DOMAIN sw THEN 1 ELSE 0

\* store.rs 300, 325, 347: ensure!(rows == 1, "swap not found")
update_result(sw, id) ==
    IF rows_updated(sw, id) = 1 THEN Ok("updated", << id >>)
    ELSE Reply("error", "swap not found", << id >>)

\* the ids of a set in ascending order
RECURSIVE Ascending(_)
Ascending(ids) ==
    IF ids = {} THEN << >>
    ELSE LET least == CHOOSE i \in ids : \A j \in ids : i <= j
         IN  << least >> \o Ascending(ids \ {least})

\* store.rs 350-391: SELECT ... FROM swaps ORDER BY swap_id
list_swaps(sw) == [n \in DOMAIN Ascending(DOMAIN sw) |-> sw[Ascending(DOMAIN sw)[n]]]

\* the ids of the rows of a list, in the list's order
listed_ids(sw) == Ascending(DOMAIN sw)

StoreOnly == UNCHANGED << cfg, quotes, chain, tip, lnPayments, lnInvoices,
                          walletLock, task, watcher >>

\* store.rs 201-245
StoreInsert ==
    /\ \E id \in StoreIds \ DOMAIN swaps :
         /\ swaps' = insert_swap(swaps, id, StoreRow(id))
         /\ reply' = Ok("inserted", << id >>)
    /\ StoreOnly

\* store.rs 292-302
StoreUpdateStatus(id, status) ==
    /\ reply' = update_result(swaps, id)
    /\ swaps' = IF update_result(swaps, id).code = "ok"
                THEN update_swap_status(swaps, id, status) ELSE swaps
    /\ StoreOnly

\* store.rs 304-327
StoreUpsertPayment(id, payment_id, preimage, status) ==
    /\ reply' = update_result(swaps, id)
    /\ swaps' = IF update_result(swaps, id).code = "ok"
                THEN upsert_swap_payment(swaps, id, payment_id, preimage, status)
                ELSE swaps
    /\ StoreOnly

\* store.rs 329-348
StoreUpsertClaim(id, claim_txid, status) ==
    /\ reply' = update_result(swaps, id)
    /\ swaps' = IF update_result(swaps, id).code = "ok"
                THEN upsert_swap_claim(swaps, id, claim_txid, status) ELSE swaps
    /\ StoreOnly

\* store.rs 247-290
StoreGet(id) ==
    /\ reply' = Ok("get_swap", << id, get_swap(swaps, id) >>)
    /\ UNCHANGED swaps
    /\ StoreOnly

\* store.rs 350-391
StoreList ==
    /\ reply' = Ok("list_swaps", << listed_ids(swaps), list_swaps(swaps) >>)
    /\ UNCHANGED swaps
    /\ StoreOnly

StoreStatuses == {"funded", "paid", "claimed", "refunded"}

NextStore ==
    \/ StoreInsert
    \/ \E id \in StoreIds, st \in StoreStatuses : StoreUpdateStatus(id, st)
    \/ \E id \in StoreIds, p \in Preimages : StoreUpsertPayment(id, 1, p, "paid")
    \/ \E id \in StoreIds : StoreUpsertClaim(id, << "claim", id, 1 >>, "claimed")
    \/ \E id \in StoreIds : StoreGet(id)
    \/ StoreList

SpecStore == Init /\ [][NextStore]_vars

(* ------------------- the watcher over a store of two swaps ------------ *)
\* cfg.fee_subsidy_sats of two runs of the process: the default, and one
\* that is no more than the watcher's refund_fee_sats
WatchSubsidies == {RefundFeeSats, FeeSubsidySats}

WatchConfig(fee_subsidy_sats) ==
    [BaseConfig EXCEPT !.fee_subsidy_sats = fee_subsidy_sats]

\* the quote create_quote stores under config c (service.rs 303-378), linked
\* to swap sid
WatchQuote(c, sid) ==
    [offer_id |-> offer_id(current_offer(c)), offer |-> current_offer(c),
     direction |-> "ln_to_liquid", asset_id |-> current_offer(c).asset_id,
     asset_amount |-> 1, min_funding_confs |-> 0, total_price_msat |-> 1,
     swap_id |-> Some(sid)]

\* the HTLC create_swap funds at tip 0 under config c (service.rs 538-566)
WatchHtlc(c) ==
    htlc_spec("ln_to_liquid", sha256_preimage("preimage_x"), "wallet_buyer",
              refund_lock_height_at(0, c.refund_delta_blocks))

\* the row create_swap inserts for quote q at tip 0 under config c
\* (service.rs 567-598), with the status it has when the wait is over
WatchSwap(sid, q, c, status) ==
    [quote_id |-> q, direction |-> "ln_to_liquid",
     bolt11_invoice |-> Bolt11(sha256_preimage("preimage_x"), Some(1), FALSE),
     payment_hash |-> sha256_preimage("preimage_x"),
     asset_id |-> c.sell_asset_id, asset_amount |-> 1, total_price_msat |-> 1,
     buyer_liquid_address |-> "wallet_buyer",
     fee_subsidy_sats |-> c.fee_subsidy_sats,
     refund_lock_height |-> refund_lock_height_at(0, c.refund_delta_blocks),
     p2wsh_address |-> p2wsh_address(witness_script(WatchHtlc(c))),
     witness_script |-> witness_script(WatchHtlc(c)),
     funding_txid |-> << "funding", sid >>, asset_vout |-> 0, lbtc_vout |-> 1,
     min_funding_confs |-> 0, ln_payment_id |-> None, ln_preimage |-> None,
     claim_txid |-> None, status |-> status]

\* a process started on a store that earlier runs have left with two quotes
\* and their swaps, each made under the config of its run
InitWatch ==
    /\ cfg \in { WatchConfig(f) : f \in WatchSubsidies }
    /\ \E f1, f2 \in WatchSubsidies, st1, st2 \in {"created", "funded"} :
         /\ quotes = [q \in {"quote_1", "quote_2"} |->
                        IF q = "quote_1" THEN WatchQuote(WatchConfig(f1), 1)
                        ELSE WatchQuote(WatchConfig(f2), 2)]
         /\ swaps = << WatchSwap(1, "quote_1", WatchConfig(f1), st1),
                       WatchSwap(2, "quote_2", WatchConfig(f2), st2) >>
         /\ chain = << [height |-> 0, spent |-> "no", txid |-> << "funding", 1 >>,
                        script |-> WatchHtlc(WatchConfig(f1))],
                       [height |-> 0, spent |-> "no", txid |-> << "funding", 2 >>,
                        script |-> WatchHtlc(WatchConfig(f2))] >>
    /\ tip = 0
    /\ lnPayments = << >>
    /\ lnInvoices = 0
    /\ walletLock = "free"
    /\ task = [t \in Tasks |-> IdleTask]
    /\ watcher = IdleWatcher
    /\ reply = NoReply

NextWatch ==
    \/ MineBlock
    \/ Reading
    \/ Refunding

\* the worker's loop runs a cycle every poll interval (swap_server.rs 189-209)
SpecWatch == InitWatch /\ [][NextWatch]_vars /\ WF_vars(Refunding)

\* CreateSwap is called again for a quote that has its swap (service.rs
\* 421-432)
create_swap_retried ==
    \E t \in Tasks :
        /\ Accept(t)
        /\ \E h \in Headers : \E c \in caller_of(h), q \in QuoteIdInputs,
              a \in SomeAddresses, i \in SomeInvoices :
               create_swap_existing(t, c, q, a, i)

\* the process started on that store, no call of an earlier run left: its
\* clients read, and retry CreateSwap for the quotes that have their swaps
NextRetry ==
    \/ MineBlock
    \/ Reading
    \/ create_swap_retried
    \/ Refunding

\* a retry is answered, and the worker's loop runs every poll interval
SpecRetry ==
    InitWatch /\ [][NextRetry]_vars /\ WF_vars(create_swap_retried) /\ WF_vars(Refunding)

(* ------------- the script and the transactions, by themselves --------- *)
\* The functions of htlc.rs are applied to arguments drawn at the start:
\* reply holds the call, then what it returned.
KeyHashes == { pubkey_hash160(a) : a \in {SellerAddress} \cup BuyerAddresses }
\* the heights at which the encoding of the number changes its form
ScriptHeights ==
    (0..17) \cup {127, 128, 255, 256, 32767, 32768, MaxU32 - 1, MaxU32}
HtlcSpecs ==
    [payment_hash : InvoiceHashes, claimer : KeyHashes, refunder : KeyHashes,
     refund_lock_height : ScriptHeights]

\* the instructions a script may hold where the parser reads a number n:
\* what push_int makes, the same bytes pushed as data, pushed through
\* OP_PUSHDATA1, and followed by a zero byte
NumberInstructions(n) ==
    {push_int(n),
     PushBytes(Len(build_scriptint(n)), build_scriptint(n)),
     PushData1(Len(build_scriptint(n)), build_scriptint(n)),
     PushBytes(Len(build_scriptint(n)) + 1, build_scriptint(n) \o << 0 >>)}
\* numbers that are no height, and instructions that are no number
OtherInstructions ==
    {push_int(0 - 1), push_int(0 - 5), PushBytes(1, << 128 >>),
     push_int(MaxU32 + 1), PushBytes(ScriptNumBytes + 1, [i \in 1..(ScriptNumBytes + 1) |-> 0]),
     Op("OP_DUP")}
SomeHtlcSpec ==
    [payment_hash |-> sha256_preimage("preimage_x"),
     claimer |-> pubkey_hash160(BuyerAddress),
     refunder |-> pubkey_hash160(SellerAddress),
     refund_lock_height |-> 144]
\* scripts as a peer may send them: the HTLC's with one instruction put
\* another way, cut short, or with more after its end
ScriptInputs ==
    LET s == witness_script(SomeHtlcSpec)
    IN  { [s EXCEPT ![14] = x] :
            x \in OtherInstructions \cup
                  UNION { NumberInstructions(n) : n \in ScriptHeights } }
        \cup { [s EXCEPT ![3] = x] :
                 x \in OtherInstructions \cup NumberInstructions(32)
                       \cup NumberInstructions(33) }
        \cup { [s EXCEPT ![6] = push_slice(20, pubkey_hash160(BuyerAddress))],
               [s EXCEPT ![1] = Op("OP_NOTIF")],
               SubSeq(s, 1, 21), s \o << Op("OP_NOP") >>,
               s \o << push_int(0) >> }

HtlcFundings ==
    { [funding_txid |-> "funding_tx", asset_vout |-> v, lbtc_vout |-> 1 - v,
       asset_id |-> "asset_a", asset_amount |-> 1, policy_asset |-> "lbtc",
       fee_subsidy_sats |-> f] : v \in {0, 1}, f \in {0, 1, 2, MaxU64} }
ClaimTxInputs ==
    [witness_script : {witness_script(SomeHtlcSpec)},
     funding : HtlcFundings,
     receive : {SellerAddress, BuyerAddress},
     secret_key : {secret_key_of(SellerAddress), secret_key_of(BuyerAddress)},
     preimage : Preimages,
     fee_sats : {0, 1, 2, MaxU64}]
RefundTxInputs ==
    [witness_script : {witness_script(SomeHtlcSpec)},
     refund_lock_height : {0, 144, LOCK_TIME_THRESHOLD - 1, LOCK_TIME_THRESHOLD},
     funding : HtlcFundings,
     receive : {SellerAddress, BuyerAddress},
     secret_key : {secret_key_of(SellerAddress), secret_key_of(BuyerAddress)},
     fee_sats : {0, 1, 2, MaxU64}]

Call(function, args) == Reply("call", function, args)
\* what a function returned: Ok with its value, or Err
Returned(function, args, result) ==
    Reply(IF result = None THEN "err" ELSE "ok", function,
          [args |-> args, result |-> result])

InitHtlc ==
    /\ cfg = BaseConfig
    /\ quotes = << >>
    /\ swaps = << >>
    /\ chain = << >>
    /\ tip = 0
    /\ lnPayments = << >>
    /\ lnInvoices = 0
    /\ walletLock = "free"
    /\ task = [t \in Tasks |-> IdleTask]
    /\ watcher = IdleWatcher
    /\ reply \in { Call("witness_script", x) : x \in HtlcSpecs }
                \cup { Call("parse_witness_script", s) : s \in ScriptInputs }
                \cup { Call("claim_tx_from_witness_script", a) : a \in ClaimTxInputs }
                \cup { Call("refund_tx_from_witness_script", a) : a \in RefundTxInputs }

NoEffect ==
    UNCHANGED << cfg, quotes, swaps, chain, tip, lnPayments, lnInvoices,
                 walletLock, task, watcher >>

\* spec.witness_script()
Emit ==
    /\ reply.code = "call"
    /\ reply.kind = "witness_script"
    /\ reply' = Returned("witness_script", reply.val,
                         Some(witness_script(reply.val)))
    /\ NoEffect

\* HtlcSpec::parse_witness_script of the script just made
ParseEmitted ==
    /\ reply.code = "ok"
    /\ reply.kind = "witness_script"
    /\ reply' = Returned("parse_witness_script(witness_script)", reply.val.args,
                         parse_witness_script(reply.val.result[1]))
    /\ NoEffect

\* HtlcSpec::parse_witness_script of a script received
Parse ==
    /\ reply.code = "call"
    /\ reply.kind = "parse_witness_script"
    /\ reply' = Returned("parse_witness_script", reply.val,
                         parse_witness_script(reply.val))
    /\ NoEffect

\* spec.witness_script() of the HtlcSpec just parsed
EmitParsed ==
    /\ reply.code = "ok"
    /\ reply.kind = "parse_witness_script"
    /\ reply' = Returned("witness_script(parse_witness_script)", reply.val.args,
                         Some(witness_script(reply.val.result[1])))
    /\ NoEffect

ClaimTx ==
    /\ reply.code = "call"
    /\ reply.kind = "claim_tx_from_witness_script"
    /\ LET a == reply.val
       IN reply' = Returned("claim_tx_from_witness_script", a,
                            claim_tx_from_witness_script(a.witness_script,
                                a.funding, a.receive, a.secret_key, a.preimage,
                                a.fee_sats))
    /\ NoEffect

RefundTx ==
    /\ reply.code = "call"
    /\ reply.kind = "refund_tx_from_witness_script"
    /\ LET a == reply.val
       IN reply' = Returned("refund_tx_from_witness_script", a,
                            refund_tx_from_witness_script(a.witness_script,
                                a.refund_lock_height, a.funding, a.receive,
                                a.secret_key, a.fee_sats))
    /\ NoEffect

NextHtlc ==
    \/ Emit
    \/ ParseEmitted
    \/ Parse
    \/ EmitParsed
    \/ ClaimTx
    \/ RefundTx

SpecHtlc == InitHtlc /\ [][NextHtlc]_vars

(* ------------------------------ properties ---------------------------- *)
ln_payer(rec) == parties_for_direction(rec.direction).ln_payer
liquid_claimer(rec) == parties_for_direction(rec.direction).liquid_claimer

\* what a swap's row records
HasPayment(rec) == rec.ln_payment_id # None /\ rec.ln_preimage # None
HasPreimage(rec) == rec.ln_preimage # None
HasClaim(rec) == rec.claim_txid # None

\* C1: the watcher never broadcasts a refund for, and never writes Refunded
\* over, a swap whose persisted status is Paid or Claimed at that moment.
C1_WatcherSparesPaidSwaps ==
    [][\A s \in DOMAIN swaps :
         /\ (chain[s].spent = "no" /\ chain'[s].spent = "refunded")
               => swaps[s].status \notin {"paid", "claimed"}
         /\ (swaps[s].status # "refunded" /\ swaps'[s].status = "refunded")
               => swaps[s].status \notin {"paid", "claimed"}]_vars

\* the edges of the status graph
AllowedStatusEdges ==
    { << "created", "funded" >>, << "funded", "paid" >>, << "paid", "claimed" >>,
      << "funded", "refunded" >>, << "created", "refunded" >> }
    \cup { << st, "failed" >> : st \in Statuses }

\* C2: every change of a swap's persisted status follows an edge of the
\* status graph.
C2_MonotonicStatus ==
    [][\A s \in DOMAIN swaps :
         swaps'[s].status # swaps[s].status
           => << swaps[s].status, swaps'[s].status >> \in AllowedStatusEdges]_vars

swaps_of_quote(q) == { s \in DOMAIN swaps : swaps[s].quote_id = q }

\* C3: for every quote at most one swap record (and so one funding
\* transaction) refers to it, and a link once set is never changed.
C3_OneSwapPerQuote ==
    [][\A q \in DOMAIN quotes :
         /\ Cardinality(swaps_of_quote(q)') <= 1
         /\ existing_swap_id(quotes[q]) # None
               => existing_swap_id(quotes'[q]) = existing_swap_id(quotes[q])]_vars

\* a CreateSwap for quote q that read the quote is still before its funding
create_swap_in_flight(q) == \E t \in Tasks : task[t].pc = "cs_fund" /\ task[t].q = q

\* C4: once a quote links to a swap, every buyer CreateSwap for it with a
\* non-empty address is answered with the linked swap, whatever the other
\* arguments and the current offer; the answer creates no invoice, funds
\* nothing and writes nothing; and with no other CreateSwap for the quote in
\* flight the link stays what it is.
C4_CreateSwapIdempotent ==
    /\ [](\A q \in DOMAIN quotes :
            existing_swap_id(quotes[q]) # None
              => \A a \in AddressInputs \ {""},
                    i \in SomeInvoices \cup {Unparsable}, c \in OfferConfigs :
                    create_swap_check("buyer", q, get_quote(quotes, q), a, i, c)
                      = "existing")
    /\ [][\A t \in Tasks :
            Accept(t)
              => \A q \in DOMAIN quotes :
                    existing_swap_id(quotes[q]) # None
                      => \A c \in Callers, a \in SomeAddresses, i \in SomeInvoices :
                            create_swap_existing(t, c, q, a, i)
                              => /\ reply'.code = "ok"
                                 /\ reply'.kind = "swap"
                                 /\ reply'.val[1] = existing_swap_id(quotes[q])[1]
                                 /\ UNCHANGED << quotes, swaps, chain,
                                                 lnInvoices, lnPayments >>]_vars
    /\ [][\A q \in DOMAIN quotes :
            (existing_swap_id(quotes[q]) # None /\ ~create_swap_in_flight(q))
              => existing_swap_id(quotes'[q]) = existing_swap_id(quotes[q])]_vars

\* a linked quote whose offer is no longer the current one, and the answer
\* of a CreateSwap that found the link (only that path returns a swap that
\* is not Funded)
C4_Witness ==
    \E q \in DOMAIN quotes :
        /\ existing_swap_id(quotes[q]) # None
        /\ ~offer_unchanged(quotes[q], current_offer(cfg))
        /\ reply.code = "ok"
        /\ reply.kind = "swap"
        /\ reply.val[1] = existing_swap_id(quotes[q])[1]
        /\ reply.val[2] # "funded"

\* C5: once a payment is recorded, a call by the ln_payer is answered with
\* the recorded payment id and preimage whatever the status; the answer
\* changes neither the store nor the LN node; and no call starts a payment
\* for a swap with a recorded payment.
C5_PaymentIdempotent ==
    /\ [](\A s \in DOMAIN swaps :
            HasPayment(swaps[s])
              => create_lightning_payment_check(ln_payer(swaps[s]), s,
                                                get_swap(swaps, s)) = "recorded")
    /\ [][\A t \in Tasks, c \in Callers, s \in DOMAIN swaps :
            create_lightning_payment_recorded(t, c, s)
              => /\ reply' = Ok("payment", << swaps[s].ln_payment_id[1],
                                              swaps[s].ln_preimage[1] >>)
                 /\ UNCHANGED << quotes, swaps, chain, lnPayments, lnInvoices >>]_vars
    /\ [][\A t \in Tasks :
            (task[t].pc = "idle" /\ task'[t].pc = "clp_pay")
              => ~HasPayment(swaps[task'[t].s])]_vars

\* the recorded payment returned for a swap that is no longer Paid (the step
\* that records a payment leaves the swap Paid)
C5_Witness ==
    \E s \in DOMAIN swaps :
        /\ HasPayment(swaps[s])
        /\ swaps[s].status \in {"claimed", "refunded"}
        /\ reply = Ok("payment", << swaps[s].ln_payment_id[1],
                                    swaps[s].ln_preimage[1] >>)

\* C6: once a claim is recorded, a call by the liquid_claimer is answered
\* with the recorded claim_txid; the answer changes neither the store nor
\* the chain; and no call starts a claim for a swap with a recorded claim.
C6_ClaimIdempotent ==
    /\ [](\A s \in DOMAIN swaps :
            HasClaim(swaps[s])
              => create_asset_claim_check(liquid_claimer(swaps[s]), s,
                                          get_swap(swaps, s)) = "recorded")
    /\ [][\A t \in Tasks, c \in Callers, s \in DOMAIN swaps :
            create_asset_claim_recorded(t, c, s)
              => /\ reply' = Ok("claim", << swaps[s].claim_txid[1] >>)
                 /\ UNCHANGED << quotes, swaps, chain, lnPayments, lnInvoices >>]_vars
    /\ [][\A t \in Tasks :
            (task[t].pc = "idle" /\ task'[t].pc = "cac_claim")
              => ~HasClaim(swaps[task'[t].s])]_vars

\* the recorded claim returned while the watcher holds the wallet mutex (the
\* step that broadcasts a claim needs that mutex)
C6_Witness ==
    \E s \in DOMAIN swaps :
        /\ HasClaim(swaps[s])
        /\ walletLock = "watcher"
        /\ reply = Ok("claim", << swaps[s].claim_txid[1] >>)

\* C7: every recorded preimage hashes to its swap's payment_hash, and so
\* does every preimage a successful CreateLightningPayment returns.
C7_PreimageCorrect ==
    /\ [](\A s \in DOMAIN swaps :
            swaps[s].ln_preimage # None
              => sha256_preimage(swaps[s].ln_preimage[1]) = swaps[s].payment_hash)
    /\ [][\A t \in Tasks, p \in Preimages :
            (create_lightning_payment_settle(t, p) /\ reply'.code = "ok")
              => sha256_preimage(reply'.val[2]) = swaps[task[t].s].payment_hash]_vars
    /\ [][\A t \in Tasks, c \in Callers, s \in DOMAIN swaps :
            create_lightning_payment_recorded(t, c, s)
              => sha256_preimage(reply'.val[2]) = swaps[s].payment_hash]_vars

\* a payment has been recorded and its preimage returned
C7_Witness ==
    \E s \in DOMAIN swaps :
        /\ swaps[s].ln_preimage # None
        /\ reply.code = "ok"
        /\ reply.kind = "payment"
        /\ reply.val[2] = swaps[s].ln_preimage[1]

\* C8: when the LN client hands back a preimage that does not hash to
\* payment_hash the call fails and the store is left as it was, so a Funded
\* swap without a payment still passes the checks of a retry; a preimage
\* that does hash to payment_hash is recorded and the swap becomes Paid.
C8_MismatchLeavesRecord ==
    [][\A t \in Tasks, p \in Preimages :
         create_lightning_payment_settle(t, p)
           => LET s == task[t].s IN
              IF sha256_preimage(p) # swaps[s].payment_hash
              THEN /\ reply' = Internal("preimage hash mismatch")
                   /\ swaps' = swaps
                   /\ (swaps[s].status = "funded" /\ ~HasPayment(swaps[s]))
                        => create_lightning_payment_check(
                               ln_payer(swaps[s]), s, get_swap(swaps', s)) = "proceed"
              ELSE /\ swaps'[s].status = "paid"
                   /\ swaps'[s].ln_preimage = Some(p)
                   /\ swaps'[s].ln_payment_id = Some(task[t].pid)]_vars

\* the call has just failed on a mismatch, the swap is still Funded without
\* a payment, and the LN node can take the retry
C8_Witness ==
    \E s \in DOMAIN swaps :
        /\ reply = Internal("preimage hash mismatch")
        /\ swaps[s].status = "funded"
        /\ ~HasPayment(swaps[s])
        /\ Len(lnPayments) = 1
        /\ lnPayments[1] = s

\* C9: for a swap without a recorded payment whose status is not Funded the
\* ln_payer's call is refused with FailedPrecondition; a call goes on to
\* pay_invoice only when it read status Funded; and the LN node's payments
\* change only by such a call's pay_invoice.
C9_PayOnlyIfFunded ==
    /\ [](\A s \in DOMAIN swaps, st \in Statuses \ {"funded"} :
            ~HasPayment(swaps[s])
              => create_lightning_payment_check(
                     ln_payer(swaps[s]), s,
                     Some([swaps[s] EXCEPT !.status = st])) = "failed_precondition")
    /\ [][\A t \in Tasks :
            (task[t].pc = "idle" /\ task'[t].pc = "clp_pay")
              => swaps[task'[t].s].status = "funded"]_vars
    /\ [][lnPayments' # lnPayments
            => \E t \in Tasks : /\ task[t].pc = "clp_pay"
                               /\ lnPayments' = Append(lnPayments, task[t].s)]_vars

\* a swap that was refunded before any payment, with a task free to take the
\* call that is refused
C9_Witness ==
    \E s \in DOMAIN swaps :
        /\ swaps[s].status = "refunded"
        /\ ~HasPayment(swaps[s])
        /\ \E t \in Tasks : task[t].pc = "idle"
        /\ create_lightning_payment_check(ln_payer(swaps[s]), s,
                                          get_swap(swaps, s))
             = "failed_precondition"

\* C10: for a swap with neither a claim nor a preimage recorded the
\* liquid_claimer's call is refused with FailedPrecondition; a call goes on
\* to the claim only when it read a recorded preimage; and the chain sees a
\* claim only of a swap whose preimage is recorded.
C10_ClaimNeedsPreimage ==
    /\ [](\A s \in DOMAIN swaps :
            (~HasClaim(swaps[s]) /\ ~HasPreimage(swaps[s]))
              => create_asset_claim_check(liquid_claimer(swaps[s]), s,
                                          get_swap(swaps, s)) = "failed_precondition")
    /\ [][\A t \in Tasks :
            (task[t].pc = "idle" /\ task'[t].pc = "cac_claim")
              => /\ HasPreimage(swaps[task'[t].s])
                 /\ task'[t].pre = swaps[task'[t].s].ln_preimage[1]]_vars
    /\ [][\A s \in DOMAIN chain :
            (chain[s].spent = "no" /\ chain'[s].spent = "claimed")
              => HasPreimage(swaps[s])]_vars

\* a Funded swap that nobody has paid, with a task free to take the call
\* that is refused
C10_Witness ==
    \E s \in DOMAIN swaps :
        /\ swaps[s].status = "funded"
        /\ ~HasClaim(swaps[s])
        /\ ~HasPreimage(swaps[s])
        /\ \E t \in Tasks : task[t].pc = "idle"
        /\ create_asset_claim_check(liquid_claimer(swaps[s]), s,
                                    get_swap(swaps, s))
             = "failed_precondition"

\* the request carries no authorization metadata, or one that is not
\* "Bearer <token>", or a token that is neither configured token
Unauthorized(h) ==
    \/ h = None
    \/ h[1] # "Bearer"
    \/ h[2] \notin {cfg.seller_token, cfg.buyer_token}

\* C11: a request whose authorization is missing, is not "Bearer <token>" or
\* carries neither configured token is answered Unauthenticated by each of
\* the six RPCs, whatever its other fields (valid or not) and whatever the
\* store holds: no other check is reached and no handler step is taken.
C11_UnauthenticatedFirst ==
    \A h \in Headers :
        Unauthorized(h)
          => LET caller == require_authenticated(cfg, h)
             IN  /\ \A d \in DirectionInputs, a \in SomeAmounts,
                       x \in AssetIdInputs, m \in MinConfsChoices :
                       create_quote_check(caller, d, a, x, m, cfg) = "unauthenticated"
                 /\ \A q \in QuoteIdInputs :
                       /\ rpc_get_quote_check(caller, q, get_quote(quotes, q))
                            = "unauthenticated"
                       /\ \A a \in SomeAddresses \cup {""},
                             i \in SomeInvoices \cup {Unparsable} :
                             create_swap_check(caller, q, get_quote(quotes, q),
                                               a, i, cfg) = "unauthenticated"
                 /\ \A s \in SwapIdInputs :
                       /\ rpc_get_swap_check(caller, s, get_swap(swaps, s))
                            = "unauthenticated"
                       /\ create_lightning_payment_check(caller, s, get_swap(swaps, s))
                            = "unauthenticated"
                       /\ create_asset_claim_check(caller, s, get_swap(swaps, s))
                            = "unauthenticated"

\* a Funded swap and a free task: the ln_payer's CreateLightningPayment
\* would go on to the payment, the same request with a token that is not
\* configured is refused
C11_Witness ==
    \E s \in DOMAIN swaps :
        /\ swaps[s].status = "funded"
        /\ \E t \in Tasks : task[t].pc = "idle"
        /\ create_lightning_payment_check(ln_payer(swaps[s]), s,
                                          get_swap(swaps, s)) = "proceed"
        /\ Unauthorized(<< "Bearer", "other_token" >>)
        /\ create_lightning_payment_check(
               require_authenticated(cfg, << "Bearer", "other_token" >>), s,
               get_swap(swaps, s)) = "unauthenticated"

\* C12: CreateQuote by the buyer and CreateSwap by the seller are answered
\* PermissionDenied; CreateLightningPayment by anyone but the swap's
\* ln_payer and CreateAssetClaim by anyone but its liquid_claimer are
\* answered PermissionDenied, also when the payment or the claim is already
\* recorded; and no step of these handlers is one of a mismatched caller.
C12_RolesEnforced ==
    /\ [](\A d \in DirectionInputs, a \in SomeAmounts, x \in AssetIdInputs,
             m \in MinConfsChoices :
             create_quote_check("buyer", d, a, x, m, cfg) = "permission_denied")
    /\ [](\A q \in QuoteIdInputs, a \in SomeAddresses \cup {""},
             i \in SomeInvoices \cup {Unparsable} :
             create_swap_check("seller", q, get_quote(quotes, q), a, i, cfg)
               = "permission_denied")
    /\ [](\A s \in DOMAIN swaps, c \in Callers :
             /\ c # ln_payer(swaps[s])
                  => create_lightning_payment_check(c, s, get_swap(swaps, s))
                       = "permission_denied"
             /\ c # liquid_claimer(swaps[s])
                  => create_asset_claim_check(c, s, get_swap(swaps, s))
                       = "permission_denied")
    /\ [][\A t \in Tasks :
            Accept(t)
              => \A s \in DOMAIN swaps, c \in Callers :
                    /\ c # ln_payer(swaps[s])
                         => /\ ~create_lightning_payment_recorded(t, c, s)
                            /\ ~create_lightning_payment_begin(t, c, s)
                    /\ c # liquid_claimer(swaps[s])
                         => /\ ~create_asset_claim_recorded(t, c, s)
                            /\ \A f \in ClaimFeeChoices :
                                  ~create_asset_claim_begin(t, c, s, f)]_vars

\* a swap whose payment is recorded, answered to its ln_payer with the
\* recorded payment and refused to the other party
C12_Witness ==
    \E s \in DOMAIN swaps, c \in Callers :
        /\ HasPayment(swaps[s])
        /\ c # ln_payer(swaps[s])
        /\ reply = Ok("payment", << swaps[s].ln_payment_id[1],
                                    swaps[s].ln_preimage[1] >>)
        /\ create_lightning_payment_check(ln_payer(swaps[s]), s,
                                          get_swap(swaps, s)) = "recorded"
        /\ create_lightning_payment_check(c, s, get_swap(swaps, s))
             = "permission_denied"

\* C13: the watcher builds and broadcasts the refund of a swap only when
\* the status its cycle listed is Created or Funded and the tip height its
\* cycle read is at least the swap's refund_lock_height; no refund reaches
\* the chain otherwise.
C13_RefundOnlyAfterLock ==
    /\ [][\A s \in DOMAIN swaps :
            refund_once_broadcast(s)
              => /\ watcher.list[s] \in {"created", "funded"}
                 /\ watcher.tip >= swaps[s].refund_lock_height]_vars
    /\ [][\A s \in DOMAIN chain :
            (chain[s].spent # "refunded" /\ chain'[s].spent = "refunded")
              => /\ s \in DOMAIN watcher.list
                 /\ watcher.list[s] \in {"created", "funded"}
                 /\ watcher.tip >= swaps[s].refund_lock_height]_vars

\* the watcher has broadcast the refund of a swap whose lock height its
\* cycle's tip had reached, while a cycle that read a lower tip cannot
C13_Witness ==
    /\ watcher.pc = "write"
    /\ chain[watcher.cur].spent = "refunded"
    /\ watcher.list[watcher.cur] \in {"created", "funded"}
    /\ watcher.tip = swaps[watcher.cur].refund_lock_height
    /\ ~refund_eligible("funded", watcher.tip - 1,
                        swaps[watcher.cur].refund_lock_height)

\* C14: when the broadcast of a swap's refund fails the watcher writes
\* nothing (the swap keeps its status), goes on with the other swaps of its
\* list, and the next cycle lists every swap again with the status it then
\* has, so that a swap still Created or Funded is tried again.
C14_RefundFailureRetried ==
    /\ [][\A s \in DOMAIN swaps :
            (refund_once_broadcast(s) /\ chain' = chain)
              => /\ swaps' = swaps
                 /\ watcher'.pc = "loop"
                 /\ watcher'.tip = watcher.tip
                 /\ DOMAIN watcher'.list = DOMAIN watcher.list \ {s}
                 /\ \A x \in DOMAIN watcher'.list :
                       watcher'.list[x] = watcher.list[x]]_vars
    /\ [][refund_once_begin
            => /\ DOMAIN watcher'.list = DOMAIN swaps
               /\ \A s \in DOMAIN swaps :
                     /\ watcher'.list[s] = swaps[s].status
                     /\ (swaps[s].status \in {"created", "funded"}
                           /\ tip >= swaps[s].refund_lock_height)
                         => refund_eligible(watcher'.list[s], watcher'.tip,
                                            swaps[s].refund_lock_height)]_vars

\* a cycle that tried the refund of a swap it cannot sign for (its HTLC is
\* still unspent and its status what it was) and has another swap left
C14_Witness ==
    /\ watcher.pc = "loop"
    /\ DOMAIN watcher.list # {}
    /\ \E s \in DOMAIN swaps \ DOMAIN watcher.list :
          /\ swaps[s].status \in {"created", "funded"}
          /\ watcher.tip >= swaps[s].refund_lock_height
          /\ chain[s].spent = "no"

\* C15: with the watcher scheduled fairly and no LN payment, a swap whose
\* refund broadcast succeeds gets the status Refunded; the watcher never
\* changes a Refunded status; and once the watcher has written Refunded for
\* a swap none of its cycles broadcasts a refund for that swap again.
C15_RefundLiveness ==
    /\ \A s \in 1..MaxSwaps :
          (s \in DOMAIN chain /\ chain[s].spent = "refunded")
            ~> (s \in DOMAIN swaps /\ swaps[s].status = "refunded")
    /\ [][\A s \in DOMAIN swaps :
            (Refunding /\ swaps[s].status = "refunded")
              => swaps'[s].status = "refunded"]_vars
    /\ [][\A s \in DOMAIN swaps :
            (chain[s].spent = "refunded" /\ watcher.pc # "write")
              => ~refund_once_broadcast(s)]_vars

\* C16: when the first CreateSwap for a quote answers with success the swap
\* record is in the store with its funding_txid and the status Funded;
\* when CreateAssetClaim answers with success after
\* its broadcast the claim_txid it returns and the status Claimed are in the
\* store; a refund that reached the chain has its swap written Refunded
\* before the watcher goes on to anything else, so before its cycle ends.
C16_OutcomePersisted ==
    /\ [][\A t \in Tasks :
            (task[t].pc \in {"cs_fund", "cs_wait", "cs_mark"}
               /\ task'[t].pc = "idle" /\ reply'.code = "ok")
              => /\ reply'.kind = "swap"
                 /\ reply'.val[1] \in DOMAIN swaps'
                 /\ reply'.val[1] \in DOMAIN chain'
                 /\ swaps'[reply'.val[1]].funding_txid = chain'[reply'.val[1]].txid
                 /\ swaps'[reply'.val[1]].status = "funded"
                 /\ reply'.val[2] = "funded"]_vars
    /\ [][\A t \in Tasks :
            (task[t].pc = "cac_claim" /\ task'[t].pc = "idle"
               /\ reply'.code = "ok")
              => /\ reply'.kind = "claim"
                 /\ chain'[task[t].s].spent = "claimed"
                 /\ swaps'[task[t].s].claim_txid = Some(reply'.val[1])
                 /\ swaps'[task[t].s].status = "claimed"]_vars
    /\ [][\A s \in DOMAIN chain :
            (chain[s].spent # "refunded" /\ chain'[s].spent = "refunded")
              => /\ watcher'.pc = "write"
                 /\ watcher'.cur = s]_vars
    /\ [][(watcher.pc = "write" /\ watcher' # watcher /\ ~Restart(Configs))
            => /\ swaps'[watcher.cur].status = "refunded"
               /\ watcher'.pc = "loop"]_vars

\* the answer of a CreateAssetClaim whose claim went through, with the
\* store holding what it returned
C16_Witness ==
    \E s \in DOMAIN swaps :
        /\ reply.code = "ok"
        /\ reply.kind = "claim"
        /\ swaps[s].claim_txid = Some(reply.val[1])
        /\ swaps[s].status = "claimed"
        /\ chain[s].spent = "claimed"

\* an invoice that parses, names the amount total_price_msat and has not
\* expired
GoodInvoice(i, total_price_msat) ==
    /\ i \in { Bolt11(h, Some(total_price_msat), FALSE) : h \in InvoiceHashes }

\* a CreateSwap request with one of the defects the validation names
InvalidRequest(q, a, i) ==
    \/ q = ""
    \/ a = ""
    \/ q \notin DOMAIN quotes
    \/ a \notin BuyerAddresses
    \/ /\ q \in DOMAIN quotes
       /\ IF quotes[q].direction = "ln_to_liquid"
          THEN i # None
          ELSE ~GoodInvoice(i, quotes[q].total_price_msat)

\* what a task that goes on to the funding carries: a known quote, a
\* P2WPKH address of the network, and an invoice for the quote's price
\* whose payment hash it took
ValidatedRequest(r) ==
    /\ r.q \in DOMAIN quotes
    /\ r.addr \in BuyerAddresses
    /\ GoodInvoice(r.inv, quotes[r.q].total_price_msat)
    /\ r.ph = Some(r.inv[2])

\* C17: a CreateSwap request with an empty quote_id or address, an unknown
\* quote, an address that is malformed, not P2WPKH or of another network, an
\* invoice on LN_TO_LIQUID, or an invoice that is missing, unparsable,
\* without amount, for another amount or expired on LIQUID_TO_LN, never gets
\* past the checks (for a quote not yet linked and an unchanged offer it is
\* answered InvalidArgument or NotFound); and an invoice is created, an HTLC
\* funded, a swap inserted or a quote linked only by a task whose request
\* passed them.
C17_RejectedBeforeEffects ==
    /\ [](\A q \in QuoteIdInputs, a \in AddressInputs, i \in InvoiceInputs :
            InvalidRequest(q, a, i)
              => LET answer == create_swap_check("buyer", q, get_quote(quotes, q),
                                                 a, i, cfg)
                 IN  /\ answer # "proceed"
                     /\ (q \in DOMAIN quotes
                           => /\ quotes[q].swap_id = None
                              /\ quotes[q].offer = current_offer(cfg))
                        => answer \in {"invalid_argument", "not_found"})
    /\ [][\A t \in Tasks :
            (task[t].pc = "idle" /\ task'[t].pc = "cs_fund")
              => ValidatedRequest(task'[t])]_vars
    /\ [][(\/ lnInvoices' # lnInvoices
           \/ DOMAIN chain' # DOMAIN chain
           \/ DOMAIN swaps' # DOMAIN swaps
           \/ \E q \in DOMAIN quotes : quotes'[q].swap_id # quotes[q].swap_id)
            => \E t \in Tasks :
                 /\ task'[t] # task[t]
                 /\ task'[t].pc \in {"cs_fund", "cs_wait"}
                 /\ ValidatedRequest(task'[t])]_vars

\* a LIQUID_TO_LN quote under the current offer, not yet linked, with a free
\* task: the request with the invoice for its price would go on, the same
\* request with an expired invoice or one for another amount is refused,
\* and nothing has been created
C17_Witness ==
    \E q \in DOMAIN quotes, h \in Hashes :
        /\ quotes[q].direction = "liquid_to_ln"
        /\ quotes[q].swap_id = None
        /\ \E t \in Tasks : task[t].pc = "idle"
        /\ create_swap_check("buyer", q, get_quote(quotes, q), BuyerAddress,
                             Bolt11(h, Some(quotes[q].total_price_msat), FALSE),
                             cfg) = "proceed"
        /\ create_swap_check("buyer", q, get_quote(quotes, q), BuyerAddress,
                             Bolt11(h, Some(quotes[q].total_price_msat), TRUE),
                             cfg) = "invalid_argument"
        /\ create_swap_check("buyer", q, get_quote(quotes, q), BuyerAddress,
                             Bolt11(h, Some(quotes[q].total_price_msat + 1), FALSE),
                             cfg) = "invalid_argument"
        /\ reply.code = "ok"
        /\ reply.kind = "quote"
        /\ swaps = << >>
        /\ lnInvoices = 0

\* one of the offer's fields has another value
OfferFieldDiffers(was, now) == \E f \in DOMAIN was : was[f] # now[f]

\* C18: when a field of the offer (the asset, the price, the fee subsidy,
\* the refund delta, the invoice expiry) is not what it was when the quote
\* was made, the first CreateSwap for the quote is answered
\* FailedPrecondition whatever its address and invoice, and no task goes on
\* to the invoice, the funding or the swap for such a quote.
C18_OfferChangeRejected ==
    /\ [](\A q \in DOMAIN quotes, c \in OfferConfigs :
            (quotes[q].swap_id = None
               /\ OfferFieldDiffers(quotes[q].offer, current_offer(c)))
              => \A a \in AddressInputs \ {""}, i \in InvoiceInputs :
                    create_swap_check("buyer", q, get_quote(quotes, q), a, i, c)
                      = "failed_precondition")
    /\ [][\A t \in Tasks :
            (task[t].pc = "idle" /\ task'[t].pc = "cs_fund")
              => ~OfferFieldDiffers(quotes[task'[t].q].offer,
                                    current_offer(cfg))]_vars

\* a quote made before a restart that changed only the invoice expiry: the
\* request that would have gone on is refused, and nothing was created
C18_Witness ==
    \E q \in DOMAIN quotes :
        /\ quotes[q].swap_id = None
        /\ quotes[q].offer.invoice_expiry_secs # cfg.invoice_expiry_secs
        /\ quotes[q].offer
             = [current_offer(cfg) EXCEPT
                  !.invoice_expiry_secs = quotes[q].offer.invoice_expiry_secs]
        /\ \E t \in Tasks : task[t].pc = "idle"
        /\ \E i \in InvoiceInputs :
              /\ invoice_check(quotes[q], i) = "proceed"
              /\ create_swap_check("buyer", q, get_quote(quotes, q),
                                   BuyerAddress, i, cfg) = "failed_precondition"
        /\ swaps = << >>
        /\ lnInvoices = 0

\* a CreateQuote request the validation has to refuse under config c
ViolatingQuoteRequest(d, a, x, m, c) ==
    \/ d \notin Directions
    \/ a <= 0
    \/ x # c.sell_asset_id
    \/ m > 6
    \/ a * c.price_msat_per_asset_unit > MaxU64

\* C19: every quote in the store has asset_amount > 0, min_funding_confs <=
\* 6, one of the two directions, and total_price_msat = asset_amount times
\* the price of the offer it was made under (within u64); a quote is
\* inserted with the asset and the offer configured at that moment; and a
\* seller's request that breaks one of these is answered with an error, so
\* that no quote is inserted for it.
C19_QuoteInvariants ==
    /\ [](\A q \in DOMAIN quotes :
            /\ quotes[q].asset_amount > 0
            /\ quotes[q].min_funding_confs <= 6
            /\ quotes[q].direction \in {"ln_to_liquid", "liquid_to_ln"}
            /\ quotes[q].asset_id = quotes[q].offer.asset_id
            /\ quotes[q].total_price_msat
                 = quotes[q].asset_amount * quotes[q].offer.price_msat_per_asset_unit
            /\ quotes[q].total_price_msat <= MaxU64)
    /\ [][\A q \in DOMAIN quotes' \ DOMAIN quotes :
            /\ quotes'[q].asset_id = cfg.sell_asset_id
            /\ quotes'[q].offer = current_offer(cfg)
            /\ quotes'[q].offer_id = offer_id(current_offer(cfg))
            /\ quotes'[q].swap_id = None
            /\ reply' = Ok("quote", << q >>)]_vars
    /\ [](\A d \in DirectionInputs, a \in AmountInputs, x \in AssetIdInputs,
            m \in MinConfsChoices :
            ViolatingQuoteRequest(d, a, x, m, cfg)
              => create_quote_check("seller", d, a, x, m, cfg)
                   \in {"invalid_argument", "failed_precondition"})

\* a quote for the largest amount at price 1, made while the same request at
\* the price of another configuration would overflow and be refused
C19_Witness ==
    \E q \in DOMAIN quotes, c \in OfferConfigs :
        /\ reply = Ok("quote", << q >>)
        /\ quotes[q].total_price_msat = quotes[q].asset_amount
        /\ quotes[q].asset_amount * c.price_msat_per_asset_unit > MaxU64
        /\ create_quote_check("seller", quotes[q].direction,
                              quotes[q].asset_amount, c.sell_asset_id,
                              quotes[q].min_funding_confs, c) = "invalid_argument"
        /\ create_quote_check("seller", quotes[q].direction, 0,
                              cfg.sell_asset_id, quotes[q].min_funding_confs,
                              cfg) = "invalid_argument"

\* C20: every swap in the store, of either direction, has as payment_hash
\* the payment hash of its bolt11_invoice, which is also the payment_hash
\* parse_witness_script reads from its witness_script; its
\* refund_lock_height is the one of the script; and its p2wsh_address is the
\* P2WSH address of its witness_script.
C20_HashBinding ==
    \A s \in DOMAIN swaps :
        /\ payment_hash_from_bolt11(swaps[s].bolt11_invoice)
             = Some(swaps[s].payment_hash)
        /\ parse_witness_script(swaps[s].witness_script)[1].payment_hash
             = swaps[s].payment_hash
        /\ parse_witness_script(swaps[s].witness_script)[1].refund_lock_height
             = swaps[s].refund_lock_height
        /\ swaps[s].p2wsh_address = << "p2wsh", "regtest", swaps[s].witness_script >>

\* a LIQUID_TO_LN swap made for the buyer's invoice, whose hash is not the
\* one of the invoices the service's node makes
C20_Witness ==
    \E s \in DOMAIN swaps :
        /\ swaps[s].direction = "liquid_to_ln"
        /\ swaps[s].payment_hash \notin Hashes
        /\ swaps[s].bolt11_invoice[2] = swaps[s].payment_hash
        /\ swaps[s].witness_script[6][3] = swaps[s].payment_hash
        /\ swaps[s].refund_lock_height > 0

(* C21: for every HtlcSpec, parse_witness_script(witness_script(spec))
   succeeds and returns the spec, equal in its four fields, whatever the
   refund_lock_height in the range of u32 (0, 1..16, 17, 127, 128, 32767,
   32768, the greatest); and two specs that differ in a field make
   different scripts. *)
C21_WitnessScriptRoundTrip ==
    /\ reply.kind = "parse_witness_script(witness_script)" =>
          /\ reply.code = "ok"
          /\ reply.val.result # None
          /\ \A f \in {"payment_hash", "claimer", "refunder", "refund_lock_height"} :
                reply.val.result[1][f] = reply.val.args[f]
    /\ (reply.code = "ok" /\ reply.kind = "witness_script") =>
          \A other \in HtlcSpecs :
              other # reply.val.args =>
                  witness_script(other) # reply.val.result[1]

\* the script of the greatest height, whose number takes a byte more than
\* the height has, was parsed back
C21_Witness ==
    /\ reply.kind = "parse_witness_script(witness_script)"
    /\ reply.val.args.refund_lock_height = MaxU32
    /\ reply.val.result = Some(reply.val.args)

\* the arguments of a call of one of the two builders that has returned
TxCall == reply.val.args
TxBuilt == reply.val.result[1]
TxReturned ==
    /\ reply.code \in {"ok", "err"}
    /\ reply.kind \in {"claim_tx_from_witness_script",
                       "refund_tx_from_witness_script"}

(* C22: claim_tx_from_witness_script and refund_tx_from_witness_script
   return an error and build nothing when fee_sats >= fee_subsidy_sats; a
   transaction they build has exactly three outputs: the asset amount of the
   asset and fee_subsidy_sats - fee_sats of the policy asset, both to the
   recipient's script, and the fee output of fee_sats of the policy asset;
   the two policy-asset outputs add up to fee_subsidy_sats and the
   subtraction does not wrap.  The claim transaction is built whenever
   fee_sats < fee_subsidy_sats. *)
C22_FeeArithmetic ==
    TxReturned =>
      /\ TxCall.fee_sats >= TxCall.funding.fee_subsidy_sats =>
            reply.code = "err" /\ reply.val.result = None
      /\ (reply.kind = "claim_tx_from_witness_script"
            /\ TxCall.fee_sats < TxCall.funding.fee_subsidy_sats) =>
            reply.code = "ok"
      /\ reply.code = "ok" =>
            /\ Len(TxBuilt.output) = 3
            /\ TxBuilt.output[1] =
                 [asset |-> TxCall.funding.asset_id,
                  value |-> TxCall.funding.asset_amount,
                  script_pubkey |-> << "script_pubkey", TxCall.receive >>]
            /\ TxBuilt.output[2] =
                 [asset |-> TxCall.funding.policy_asset,
                  value |-> TxCall.funding.fee_subsidy_sats - TxCall.fee_sats,
                  script_pubkey |-> << "script_pubkey", TxCall.receive >>]
            /\ TxBuilt.output[3] =
                 [asset |-> TxCall.funding.policy_asset,
                  value |-> TxCall.fee_sats,
                  script_pubkey |-> << >>]
            /\ TxBuilt.output[2].value > 0
            /\ TxBuilt.output[2].value + TxBuilt.output[3].value
                 = TxCall.funding.fee_subsidy_sats

\* a claim built with a fee below the greatest subsidy
C22_Witness ==
    /\ TxReturned
    /\ reply.kind = "claim_tx_from_witness_script"
    /\ TxCall.funding.fee_subsidy_sats = MaxU64
    /\ TxCall.fee_sats = 2
    /\ reply.code = "ok"
    /\ TxBuilt.output[2].value = MaxU64 - 2

\* the two inputs spend the HTLC outputs of the funding transaction, the
\* asset output first
SpendsHtlcOutputs(tx, funding) ==
    /\ Len(tx.input) = 2
    /\ tx.input[1].txid = funding.funding_txid
    /\ tx.input[1].vout = funding.asset_vout
    /\ tx.input[2].txid = funding.funding_txid
    /\ tx.input[2].vout = funding.lbtc_vout
\* a signature made with the key for input number i (from 0) of the
\* transaction
SignedBy(sig, secret_key, i) ==
    sig[1] = "sig" /\ sig[2] = secret_key /\ sig[4] = i

(* C23: a claim transaction that is built has lock_time 0 and two inputs,
   (funding_txid, asset_vout) then (funding_txid, lbtc_vout), each with
   sequence MAX and the five witness elements signature, public key,
   preimage, the byte 0x01 and the witness script; a refund transaction
   that is built has lock_time equal to refund_lock_height and the same two
   inputs in the same order, each with the sequence that enables the
   locktime without RBF and the four witness elements signature, public key,
   an empty element and the witness script. *)
C23_SpendShape ==
    (TxReturned /\ reply.code = "ok") =>
      /\ SpendsHtlcOutputs(TxBuilt, TxCall.funding)
      /\ reply.kind = "claim_tx_from_witness_script" =>
           /\ TxBuilt.lock_time = 0
           /\ \A i \in 1..2 :
                /\ TxBuilt.input[i].sequence = "Sequence::MAX"
                /\ Len(TxBuilt.input[i].script_witness) = 5
                /\ SignedBy(TxBuilt.input[i].script_witness[1],
                            TxCall.secret_key, i - 1)
                /\ TxBuilt.input[i].script_witness[2]
                     = << "public_key", TxCall.secret_key[2] >>
                /\ TxBuilt.input[i].script_witness[3] = TxCall.preimage
                /\ TxBuilt.input[i].script_witness[4] = << 1 >>
                /\ TxBuilt.input[i].script_witness[5] = TxCall.witness_script
      /\ reply.kind = "refund_tx_from_witness_script" =>
           /\ TxBuilt.lock_time = TxCall.refund_lock_height
           /\ \A i \in 1..2 :
                /\ TxBuilt.input[i].sequence = "Sequence::ENABLE_LOCKTIME_NO_RBF"
                /\ Len(TxBuilt.input[i].script_witness) = 4
                /\ SignedBy(TxBuilt.input[i].script_witness[1],
                            TxCall.secret_key, i - 1)
                /\ TxBuilt.input[i].script_witness[2]
                     = << "public_key", TxCall.secret_key[2] >>
                /\ TxBuilt.input[i].script_witness[3] = << >>
                /\ TxBuilt.input[i].script_witness[4] = TxCall.witness_script

\* a refund built for a funding whose asset output is the second one, with
\* a lock height above 0
C23_Witness ==
    /\ TxReturned
    /\ reply.code = "ok"
    /\ reply.kind = "refund_tx_from_witness_script"
    /\ TxCall.funding.asset_vout = 1
    /\ TxCall.refund_lock_height = 144
    /\ TxBuilt.lock_time = 144
    /\ TxBuilt.input[1].vout = 1

(* C30: parse_witness_script is the exact inverse of witness_script: for
   every script s it accepts, witness_script(parse_witness_script(s)) is s,
   instruction for instruction.  So it refuses a refund_lock_height or a
   constant 32 that is not written the shortest way (a number followed by a
   zero byte, a data push where OP_1..OP_16 applies), instructions after
   OP_ENDIF, and a height below 0 or above the greatest u32. *)
C30_ParseIsExactInverse ==
    reply.kind = "witness_script(parse_witness_script)" =>
        reply.val.result = Some(reply.val.args)

\* the role table of the two directions: who pays the invoice, who is paid,
\* who funds the HTLC, who claims it and who refunds it
RoleTable(direction) ==
    IF direction = "ln_to_liquid"
    THEN << "buyer", "seller", "seller", "buyer", "seller" >>
    ELSE << "seller", "buyer", "buyer", "seller", "buyer" >>
\* the key hash of a party of a swap: the buyer's is the one of the
\* buyer_liquid_address of the request, the seller's the one of the wallet
\* address at seller_key_index
KeyHashOf(party, rec) ==
    IF party = "buyer" THEN << "hash160", rec.buyer_liquid_address >>
    ELSE << "hash160", "wallet_seller" >>

(* C24: the claimer and refunder hashes CreateSwap puts into the HTLC
   script follow the role table: for LN_TO_LIQUID the claimer's is the
   buyer's (from buyer_liquid_address) and the refunder's is the seller's
   (address at seller_key_index), for LIQUID_TO_LN the claimer's is the
   seller's and the refunder's is the buyer's; the funded script is the
   stored one; and the parties reported for a quote or swap are
   (ln_payer, ln_payee, liquid_funder, liquid_claimer, liquid_refunder) =
   buyer/seller/seller/buyer/seller for LN_TO_LIQUID and
   seller/buyer/buyer/seller/buyer for LIQUID_TO_LN. *)
C24_RoleTable ==
    /\ \A s \in DOMAIN swaps :
         LET rec == swaps[s]
             parsed == parse_witness_script(rec.witness_script)
         IN /\ parsed # None
            /\ parsed[1].claimer = KeyHashOf(RoleTable(rec.direction)[4], rec)
            /\ parsed[1].refunder = KeyHashOf(RoleTable(rec.direction)[5], rec)
            /\ s \in DOMAIN chain
            /\ chain[s].script = parsed[1]
            /\ rec.direction = "ln_to_liquid" =>
                 /\ parsed[1].claimer = << "hash160", rec.buyer_liquid_address >>
                 /\ parsed[1].refunder = << "hash160", "wallet_seller" >>
            /\ rec.direction = "liquid_to_ln" =>
                 /\ parsed[1].claimer = << "hash160", "wallet_seller" >>
                 /\ parsed[1].refunder = << "hash160", rec.buyer_liquid_address >>
    /\ \A d \in {"ln_to_liquid", "liquid_to_ln"} :
         LET p == parties_for_direction(d)
         IN << p.ln_payer, p.ln_payee, p.liquid_funder, p.liquid_claimer,
               p.liquid_refunder >> = RoleTable(d)
    /\ \A q \in DOMAIN quotes : quotes[q].direction \in {"ln_to_liquid", "liquid_to_ln"}
    /\ \A s \in DOMAIN swaps : swaps[s].direction = quotes[swaps[s].quote_id].direction

\* a LIQUID_TO_LN swap for a buyer address that is not the wallet's: its
\* script has the seller's hash in the claim branch and that address's hash
\* in the refund branch
C24_Witness ==
    \E s \in DOMAIN swaps :
        /\ swaps[s].direction = "liquid_to_ln"
        /\ swaps[s].buyer_liquid_address = "foreign"
        /\ swaps[s].witness_script[10] = PushBytes(20, << "hash160", "wallet_seller" >>)
        /\ swaps[s].witness_script[19] = PushBytes(20, << "hash160", "foreign" >>)

\* the public key in the witness of the inputs of a transaction, and the
\* HASH160 of a public key
WitnessPubkeys(tx) == { tx.input[i].script_witness[2] : i \in 1..Len(tx.input) }
Hash160OfPubkey(pubkey) == << "hash160", pubkey[2] >>
\* the wallet address of a party of a swap
AddressOf(party, rec) ==
    IF party = "buyer" THEN rec.buyer_liquid_address ELSE "wallet_seller"

(* C25: for every swap the watcher builds and broadcasts a refund for, of
   either direction, the refund transaction is signed with the key of the
   swap's liquid_refunder and pays that party's address: the HASH160 of the
   public key in its witness is the refunder hash of the swap's stored
   witness script (the seller's key for LN_TO_LIQUID, the buyer's for
   LIQUID_TO_LN). *)
C25_RefundSignedByRefunder ==
    [][\A s \in DOMAIN swaps :
         refund_once_broadcast(s) =>
            LET rec == swaps[s]
                tx == refund_once_tx(rec)[1]
                refunder == RoleTable(rec.direction)[5]
            IN /\ \A k \in WitnessPubkeys(tx) :
                    Hash160OfPubkey(k)
                      = parse_witness_script(rec.witness_script)[1].refunder
               /\ tx.output[1].script_pubkey
                    = << "script_pubkey", AddressOf(refunder, rec) >>]_vars

\* task t's handler returns in this step, with an answer or an error
Returns(t) ==
    task[t].pc # "idle" /\ task'[t].pc = "idle" /\ reply' # NoReply

(* C26: once a handler has made its effect on the chain or on the LN node
   (the funding broadcast of CreateSwap, pay_invoice of
   CreateLightningPayment, the claim broadcast of CreateAssetClaim), what
   came of it (the swap record with its funding_txid, the ln_payment_id,
   the claim_txid) is in the store when the handler returns, with an error
   as well as with Ok; so also when wait_preimage runs out of time after
   pay_invoice went through. *)
C26_EffectsPersistedOnReturn ==
    /\ [][\A t \in Tasks :
            (Returns(t) /\ task[t].pc \in {"cs_wait", "cs_mark"})
              => /\ task[t].s \in DOMAIN swaps'
                 /\ swaps'[task[t].s].funding_txid = chain'[task[t].s].txid
                 /\ quotes'[task[t].q].swap_id = Some(task[t].s)]_vars
    /\ [][\A t \in Tasks :
            (Returns(t) /\ task[t].pc = "clp_wait")
              => swaps'[task[t].s].ln_payment_id = Some(task[t].pid)]_vars
    /\ [][\A t \in Tasks :
            (Returns(t) /\ task[t].pc = "cac_claim"
               /\ chain'[task[t].s].spent # chain[task[t].s].spent)
              => swaps'[task[t].s].claim_txid # None]_vars

\* the lesser of two numbers
Least(a, b) == IF a < b THEN a ELSE b

(* C27: the total_price_msat of a quote is the product of its asset_amount
   and the offer's price, computed in u64 with the overflow checked: a
   CreateQuote whose product is above the greatest u64 is answered
   InvalidArgument and makes no quote, and no quote has a wrapped price;
   the refund_lock_height of a swap is the tip height at its funding plus
   refund_delta_blocks, or the greatest u32 where the sum is above it, and
   never a wrapped sum. *)
C27_NoWrapping ==
    /\ [](\A q \in DOMAIN quotes :
            /\ quotes[q].total_price_msat
                 = quotes[q].asset_amount * quotes[q].offer.price_msat_per_asset_unit
            /\ quotes[q].total_price_msat <= MaxU64)
    /\ [](\A d \in Directions, a \in AmountInputs, m \in {0, 1} :
            a * cfg.price_msat_per_asset_unit > MaxU64
              => create_quote_check("seller", d, a, cfg.sell_asset_id, m, cfg)
                   = "invalid_argument")
    /\ [][\A s \in DOMAIN swaps' \ DOMAIN swaps :
            /\ swaps'[s].refund_lock_height
                 = Least(tip + cfg.refund_delta_blocks, MaxU32)
            /\ swaps'[s].refund_lock_height >= tip
            /\ parse_witness_script(swaps'[s].witness_script)[1].refund_lock_height
                 = swaps'[s].refund_lock_height]_vars

\* a swap funded at tip 1 under a refund_delta_blocks of the greatest u32:
\* its lock height is the greatest u32
C27_Witness ==
    /\ tip = 1
    /\ \E s \in DOMAIN swaps :
         /\ chain[s].height = 0
         /\ quotes[swaps[s].quote_id].offer.refund_delta_blocks = MaxU32
         /\ swaps[s].refund_lock_height = MaxU32

\* the confirmations of the funding transaction of swap s at the tip: none
\* while it is in the mempool
Confirmations(s) ==
    IF chain[s].height = 0 THEN 0 ELSE tip - chain[s].height + 1

(* C28: CreateSwap stores the swap as Created in the step that funds it,
   and writes Funded only when the funding transaction is in the history
   of the HTLC's script with at least min_funding_confs confirmations; if
   the wait ends before that, the call returns an error and changes
   nothing: the swap keeps its status (Created, unless the watcher has
   refunded it meanwhile) and the quote keeps its link, which is the link
   to this swap when this is the only swap made for the quote (C3 is the
   case of two). *)
C28_FundedAfterConfirmations ==
    /\ [][\A s \in DOMAIN swaps' \ DOMAIN swaps :
            /\ swaps'[s].status = "created"
            /\ s \in DOMAIN chain'
            /\ chain'[s].txid = swaps'[s].funding_txid
            /\ quotes'[swaps'[s].quote_id].swap_id = Some(s)]_vars
    /\ [][\A t \in Tasks :
            (task[t].pc \in {"cs_wait", "cs_mark"}
               /\ swaps'[task[t].s].status = "funded"
               /\ swaps[task[t].s].status # "funded")
              => /\ task[t].s \in DOMAIN chain
                 /\ Confirmations(task[t].s) >= swaps[task[t].s].min_funding_confs]_vars
    /\ [][\A t \in Tasks :
            (Returns(t) /\ task[t].pc = "cs_wait")
              => /\ Confirmations(task[t].s) < swaps[task[t].s].min_funding_confs
                 /\ reply'.code \notin {"ok", "none"}
                 /\ swaps' = swaps
                 /\ swaps[task[t].s].status \in {"created", "refunded"}
                 /\ quotes' = quotes
                 /\ quotes[task[t].q].swap_id # None
                 /\ swaps_of_quote(task[t].q) = {task[t].s}
                      => quotes[task[t].q].swap_id = Some(task[t].s)]_vars

\* the answer of a CreateSwap whose wait ended with the funding transaction
\* still unconfirmed: an error, the swap Created, the quote linked
C28_Witness ==
    /\ reply.code = "internal"
    /\ reply.kind = "wait funding confirmations"
    /\ \E s \in DOMAIN swaps :
         /\ swaps[s].status = "created"
         /\ swaps[s].min_funding_confs >= 1
         /\ chain[s].height = 0
         /\ quotes[swaps[s].quote_id].swap_id = Some(s)

(* C29: when the wait for the funding confirmations in CreateSwap, or the
   wait for the preimage in CreateLightningPayment, runs out of time, the
   error returned has the code DeadlineExceeded, not Internal. *)
C29_DeadlineExceeded ==
    [][\A t \in Tasks :
         ((Returns(t) /\ task[t].pc = "cs_wait")
            \/ create_lightning_payment_timeout(t))
           => reply'.code = "deadline_exceeded"]_vars

(* C31: with the wallet mutex poisoned, every request and every cycle of
   the watcher that comes to the mutex is answered with an Internal error
   or ends as a failed cycle: none of them panics. *)
C31_PoisonedLockAnswered ==
    [][walletLock = "poisoned"
         => /\ reply'.code # "panicked"
            /\ watcher'.pc # "join_error"]_vars

\* the row of swap id before an update and after it differ in nothing but
\* the fields named
SameBut(id, fields) ==
    \A f \in DOMAIN swaps[id] \ fields : swaps'[id][f] = swaps[id][f]

\* an update of swap id that is not in the table: the error, and the table
\* as it was
Missing(id) == reply'.kind = "swap not found" /\ reply'.code = "error" /\ swaps' = swaps

\* an update of swap id that is in the table: Ok, the same rows, and every
\* other row as it was
OnlyRow(id) ==
    /\ reply'.code = "ok"
    /\ DOMAIN swaps' = DOMAIN swaps
    /\ \A o \in DOMAIN swaps \ {id} : swaps'[o] = swaps[o]

(* C32: update_swap_status, upsert_swap_payment and upsert_swap_claim for a
   swap_id the table does not hold return the error 'swap not found' and
   leave the table as it was; for a swap_id it holds, get_swap then returns
   the row with the new status (and payment or claim fields) and its other
   fields as they were, and no other row has changed; list_swaps returns
   every row once, in ascending order of swap_id. *)
C32_StoreUpdates ==
    /\ [][\A id \in StoreIds, st \in StoreStatuses :
            StoreUpdateStatus(id, st)
              => IF id \notin DOMAIN swaps THEN Missing(id)
                 ELSE /\ OnlyRow(id)
                      /\ get_swap(swaps', id)[1].status = st
                      /\ SameBut(id, {"status"})]_vars
    /\ [][\A id \in StoreIds, p \in Preimages :
            StoreUpsertPayment(id, 1, p, "paid")
              => IF id \notin DOMAIN swaps THEN Missing(id)
                 ELSE /\ OnlyRow(id)
                      /\ get_swap(swaps', id)[1].status = "paid"
                      /\ get_swap(swaps', id)[1].ln_payment_id = Some(1)
                      /\ get_swap(swaps', id)[1].ln_preimage = Some(p)
                      /\ SameBut(id, {"status", "ln_payment_id", "ln_preimage"})]_vars
    /\ [][\A id \in StoreIds :
            StoreUpsertClaim(id, << "claim", id, 1 >>, "claimed")
              => IF id \notin DOMAIN swaps THEN Missing(id)
                 ELSE /\ OnlyRow(id)
                      /\ get_swap(swaps', id)[1].status = "claimed"
                      /\ get_swap(swaps', id)[1].claim_txid = Some(<< "claim", id, 1 >>)
                      /\ SameBut(id, {"status", "claim_txid"})]_vars
    /\ [](reply.kind = "list_swaps"
            => /\ Len(reply.val[1]) = Cardinality(DOMAIN swaps)
               /\ { reply.val[1][n] : n \in DOMAIN reply.val[1] } = DOMAIN swaps
               /\ \A m, n \in DOMAIN reply.val[1] :
                    m < n => reply.val[1][m] < reply.val[1][n]
               /\ \A n \in DOMAIN reply.val[1] :
                    reply.val[2][n] = swaps[reply.val[1][n]])

\* an update for an id the table does not hold was answered with the error
\* while the table holds another swap, and an update of a held swap was
\* listed after it
C32_Witness ==
    /\ reply.kind = "list_swaps"
    /\ Len(reply.val[1]) = MaxStoreIds
    /\ \E n \in DOMAIN reply.val[2] : reply.val[2][n].status = "claimed"
    /\ \E n \in DOMAIN reply.val[2] : reply.val[2][n].ln_preimage # None

(* C33: when CreateAssetClaim comes to its wallet section for an
   LN_TO_LIQUID swap whose buyer_liquid_address is not the wallet's address
   at buyer_key_index, it answers with the error of the comparison, before
   any claim transaction is built or broadcast, and neither the swap's
   record nor the HTLC on the chain changes. *)
C33_KeyDriftGuard ==
    [][\A t \in Tasks :
         (/\ task[t].pc = "cac_claim"
          /\ Returns(t)
          /\ swaps[task[t].s].direction = "ln_to_liquid"
          /\ swaps[task[t].s].buyer_liquid_address # BuyerAddress)
           => /\ reply' = Internal("buyer_liquid_address mismatch")
              /\ swaps' = swaps
              /\ chain' = chain]_vars

\* the answer to the claim of a paid LN_TO_LIQUID swap that was created for
\* an address of another wallet
C33_Witness ==
    /\ reply = Internal("buyer_liquid_address mismatch")
    /\ \E s \in DOMAIN swaps :
         /\ swaps[s].direction = "ln_to_liquid"
         /\ swaps[s].buyer_liquid_address = "foreign"
         /\ swaps[s].status = "paid"
         /\ swaps[s].claim_txid = None
         /\ chain[s].spent = "no"

\* the mutexes held after the first n operations of a sequence
RECURSIVE HeldAfter(_, _)
HeldAfter(seq, n) ==
    IF n = 0 THEN {}
    ELSE IF seq[n] = "lock wallet" THEN HeldAfter(seq, n - 1) \cup {"wallet"}
    ELSE IF seq[n] = "lock store" THEN HeldAfter(seq, n - 1) \cup {"store"}
    ELSE IF seq[n] = "unlock wallet" THEN HeldAfter(seq, n - 1) \ {"wallet"}
    ELSE HeldAfter(seq, n - 1) \ {"store"}

\* the wallet mutex is never asked for while the store mutex is held, and
\* no mutex is asked for by the thread that holds it
WalletThenStore(seq) ==
    \A n \in DOMAIN seq :
        /\ seq[n] = "lock wallet" => HeldAfter(seq, n - 1) = {}
        /\ seq[n] = "lock store" => "store" \notin HeldAfter(seq, n - 1)

\* the next step of a task that is in a handler
TaskStep(t) ==
    \/ create_swap_fund(t, MaxSwaps)
    \/ create_swap_poll(t)
    \/ create_swap_mark_funded(t)
    \/ create_lightning_payment_pay(t)
    \/ \E p \in Preimages : create_lightning_payment_settle(t, p)
    \/ create_lightning_payment_timeout(t)
    \/ create_asset_claim_claim(t)

(* C34: the wallet mutex is always taken before the store mutex and never
   while the store mutex is held; it is held across steps by the watcher's
   cycle only, never by a CreateSwap between two polls; the holder can
   always go on and release it, and every task in a handler can take its
   next step as soon as the wallet mutex is free, so no state has every
   task blocked; while a CreateSwap waits for confirmations a cycle of the
   watcher can start and a claim can run. *)
C34_NoDeadlock ==
    /\ \A step \in DOMAIN lock_sequence : WalletThenStore(lock_sequence[step])
    /\ \A step \in DOMAIN lock_sequence \ {"refund_once_begin", "refund_once_end"} :
          HeldAfter(lock_sequence[step], Len(lock_sequence[step])) = {}
    /\ walletLock \in {"free", "watcher"}
    /\ walletLock = "watcher" <=> watcher.pc \in {"loop", "write"}
    /\ walletLock = "watcher" => ENABLED Refunding
    /\ \A t \in Tasks :
         (task[t].pc # "idle" /\ walletLock = "free") => ENABLED TaskStep(t)
    /\ \A t \in Tasks :
         (task[t].pc = "cs_wait" /\ walletLock = "free")
           => /\ watcher.pc = "idle" /\ ENABLED refund_once_begin
              /\ \A u \in Tasks :
                   task[u].pc = "cac_claim" => ENABLED create_asset_claim_claim(u)

\* a CreateSwap waits for confirmations while the watcher, in a cycle, is
\* about to write a refund, and another CreateSwap waits for the wallet
\* mutex
C34_Witness ==
    /\ walletLock = "watcher"
    /\ watcher.pc = "write"
    /\ \E t, u \in Tasks : task[t].pc = "cs_wait" /\ task[u].pc = "cs_fund"

(* C35: pay_invoice is never called for a swap for which it has been
   called and has returned a payment id before, whatever became of that
   call's wait for the preimage and whatever other calls are in flight. *)
C35_PayInvoiceOnce ==
    [][\A t \in Tasks :
         create_lightning_payment_pay(t)
           => \A p \in DOMAIN lnPayments : lnPayments[p] # task[t].s]_vars

\* the row of the swap a response of kind swap is about, with the status
\* the response shows and with preimage p recorded in it
RowWith(p) ==
    [swaps[reply.val[1]] EXCEPT !.status = reply.val[2], !.ln_preimage = Some(p)]

(* C36: the pb::Swap that GetSwap and CreateSwap return is the same
   whichever preimage the swap's row records, the responses of GetQuote and
   CreateAssetClaim carry a quote id and a claim txid and no preimage, and
   a response that carries a preimage comes from a CreateLightningPayment
   step: either the recorded payment is read for a caller who is the
   swap's ln_payer, or a call that was begun by the ln_payer settles. *)
C36_PreimageConfidential ==
    /\ [](reply.kind = "swap"
            => \A p \in Preimages : reply.val[3] = swap_record_to_proto(RowWith(p)))
    /\ [](reply.kind \in {"quote", "claim"}
            => Len(reply.val) = 1 /\ reply.val[1] \notin Preimages)
    /\ [][(reply'.code = "ok" /\ reply'.kind \notin {"swap", "quote", "claim"})
            => /\ reply'.kind = "payment"
               /\ \E t \in Tasks :
                    \/ \E p \in Preimages : create_lightning_payment_settle(t, p)
                    \/ \E s \in DOMAIN swaps :
                         create_lightning_payment_recorded(t, ln_payer(swaps[s]), s)]_vars
    /\ [][\A t \in Tasks, s \in DOMAIN swaps, c \in Callers :
            create_lightning_payment_begin(t, c, s) => c = ln_payer(swaps[s])]_vars

\* GetSwap has answered for a swap whose preimage is recorded
C36_Witness ==
    /\ reply.kind = "swap"
    /\ reply.code = "ok"
    /\ swaps[reply.val[1]].ln_preimage # None
    /\ reply.val[2] \in {"paid", "claimed"}

\* the fields a status stands for are set: what the writes of the payment
\* and of the claim keep
FieldsFollowStatus ==
    \A s \in DOMAIN swaps :
        /\ (swaps[s].ln_payment_id # None) <=> (swaps[s].ln_preimage # None)
        /\ swaps[s].status \in {"paid", "claimed"} => swaps[s].ln_preimage # None
        /\ swaps[s].status = "claimed" => swaps[s].claim_txid # None
        /\ swaps[s].claim_txid # None => swaps[s].ln_preimage # None

(* C37: in every state of the store each swap's row has ln_payment_id set
   exactly when ln_preimage is set, a preimage when its status is Paid or
   Claimed, a claim_txid when its status is Claimed, a preimage when it has
   a claim_txid, and conversely the status Paid or Claimed when it has a
   preimage, and the status Claimed when it has a claim_txid. *)
C37_RecordConsistent ==
    /\ FieldsFollowStatus
    /\ \A s \in DOMAIN swaps :
          /\ swaps[s].ln_preimage # None => swaps[s].status \in {"paid", "claimed"}
          /\ swaps[s].claim_txid # None => swaps[s].status = "claimed"

\* swap s is Created or Funded with its lock height reached, its refund
\* transaction can be built, and its HTLC is unspent
Refundable(s) ==
    /\ s \in DOMAIN swaps
    /\ refund_eligible(swaps[s].status, tip, swaps[s].refund_lock_height)
    /\ refund_once_tx(swaps[s]) # None
    /\ chain[s].spent = "no"

\* a cycle has come to swap s in its list, or the refund of s is on the chain
Reached(s) ==
    \/ watcher.pc = "write" /\ watcher.cur = s
    \/ watcher.pc = "loop" /\ s \notin DOMAIN watcher.list
    \/ chain[s].spent = "refunded"

(* C38: whatever fails for another swap short of a broadcast, a swap that
   can be refunded is come to by a cycle of the watcher, the one running or
   a later one. *)
C38_WatcherReachesEverySwap ==
    \A s \in 1..2 : Refundable(s) ~> Reached(s)

\* swap s is Created, the call that made it is over, and its funding has its
\* confirmations while the lock height is still ahead
FundingConfirmedInTime(s) ==
    /\ s \in DOMAIN swaps
    /\ swaps[s].status = "created"
    /\ \A t \in Tasks : ~(task[t].pc \in {"cs_wait", "cs_mark"} /\ task[t].s = s)
    /\ Confirmations(s) >= swaps[s].min_funding_confs
    /\ tip < swaps[s].refund_lock_height

(* C39: a Created swap whose funding has its confirmations before the lock
   height becomes Funded in the end, also after the call that made it has
   timed out or the process has been restarted, CreateSwap being retried
   for its quote. *)
C39_CreatedBecomesFunded ==
    \A s \in 1..MaxSwaps :
        FundingConfirmedInTime(s)
            ~> /\ s \in DOMAIN swaps
               /\ \/ swaps[s].status # "created"
                  \/ ~(tip < swaps[s].refund_lock_height)

\* the fields of a row that are written by insert_swap alone
Inserted(rec) ==
    << rec.quote_id, rec.bolt11_invoice, rec.payment_hash, rec.asset_id,
       rec.asset_amount, rec.refund_lock_height, rec.p2wsh_address,
       rec.witness_script, rec.funding_txid, rec.asset_vout, rec.lbtc_vout,
       rec.min_funding_confs >>

(* C40: a swap keeps its swap_id and every field insert_swap gave it; a step
   of the refund watcher changes swaps in their status alone, and no quote;
   GetQuote and GetSwap change neither the store nor the chain nor the LN
   node; a quote that is stored stays, and changes in its swap_id alone. *)
C40_Frame ==
    [][/\ \A s \in DOMAIN swaps :
            /\ s \in DOMAIN swaps'
            /\ Inserted(swaps'[s]) = Inserted(swaps[s])
       /\ Refunding
            => /\ DOMAIN swaps' = DOMAIN swaps
               /\ \A s \in DOMAIN swaps :
                    swaps'[s] = [swaps[s] EXCEPT !.status = swaps'[s].status]
               /\ quotes' = quotes
       /\ Reading
            => UNCHANGED << cfg, quotes, swaps, chain, tip, lnPayments,
                            lnInvoices >>
       /\ \A q \in DOMAIN quotes :
            /\ q \in DOMAIN quotes'
            /\ quotes'[q] = [quotes[q] EXCEPT !.swap_id = quotes'[q].swap_id]]_vars

\* a swap that was paid, and then had its status written by the watcher,
\* its quote linked to it
C40_Witness ==
    \E s \in DOMAIN swaps :
        /\ swaps[s].status = "refunded"
        /\ swaps[s].ln_preimage # None
        /\ swaps[s].quote_id \in DOMAIN quotes
        /\ quotes[swaps[s].quote_id].swap_id = Some(s)

====
